---------------------------- MODULE Spec2Model ----------------------------
(***************************************************************************)
(* Model of the KA-database ingestion core:                                *)
(*   - the keyword configuration loaders          (src/config.py)          *)
(*   - the tiered relevance filter check_relevance (src/modules/filter.py) *)
(*   - the content fetcher / PDF link scorer       (src/modules/fetcher.py)*)
(*                                                                         *)
(* Python strings are modelled as sequences of one-character strings, so   *)
(* that lower(), strip() and the substring test `kw in text` are computed  *)
(* and not assumed.                                                        *)
(***************************************************************************)
EXTENDS Integers, Sequences, FiniteSets, TLC

VARIABLES
    cfg,        \* the three keyword files on disk (config.py:22-24)
    hashSeed,   \* str hash randomisation of the running interpreter
    item,       \* the (title, description) most recently classified
    runs,       \* verdicts returned for `item`, one per call of check_relevance
    pc,         \* where the current call of ContentFetcher.fetch stands
    call,       \* its arguments: url, title
    html,       \* html_content, the body of the original page
    resp,       \* the response most recently received by requests.get
    requests,   \* the URLs requested by requests.get during the call
    written,    \* the URLs whose payload the call wrote to the PDF folder
    scored,     \* what _find_pdf_download_link did during the call
    result,     \* the value returned by fetch
    raw,        \* a text handed to the whitespace clean-up of _process_html
    passes,     \* the results of cleaning it up once, twice, ...
    step,       \* where RSSIngester._process_entry stands
    entry,      \* the feed entry it is processing
    got,        \* what fetcher.fetch returned for the entry
    db,         \* the rows of the documents table, in insertion order
    stats,      \* RSSIngester.stats
    trail,      \* the calls made for the entry so far, with their answers
    linked,     \* how many of the entries found so far had a link
    loading,    \* which keyword file a call of check_relevance reads next
    snapshot,   \* the files as that call has read them
    versions,   \* the states the files on disk went through during the pass
    seen,       \* what each call of the pass has read, and between which versions
    clock,      \* datetime.now(), in seconds
    folder,     \* the files of the PDF storage folder, each with its payload
    saved,      \* the PDFs saved by _process_pdf, in order, with their file name
    other       \* a second ingestion run: its step, entry and counters

filterVars == <<cfg, hashSeed, item, runs>>
fetchVars == <<pc, call, html, resp, requests, written, scored, result>>
normVars == <<raw, passes>>
ingestVars == <<step, entry, got, db, stats, trail, linked>>
reloadVars == <<loading, snapshot, versions, seen>>
namesVars == <<clock, folder, saved>>
otherVars == <<other>>
vars == <<cfg, hashSeed, item, runs,
          pc, call, html, resp, requests, written, scored, result,
          raw, passes,
          step, entry, got, db, stats, trail, linked,
          loading, snapshot, versions, seen,
          clock, folder, saved,
          other>>

\* what the steps of one part of the program leave alone
notFilterVars ==
    <<fetchVars, normVars, ingestVars, reloadVars, namesVars, otherVars>>
notFetchVars ==
    <<filterVars, normVars, ingestVars, reloadVars, namesVars, otherVars>>
notNormVars ==
    <<filterVars, fetchVars, ingestVars, reloadVars, namesVars, otherVars>>
notIngestVars ==
    <<item, runs, fetchVars, normVars, reloadVars, namesVars, otherVars>>

-----------------------------------------------------------------------------
(* Bounds                                                                  *)

\* longest title drawn for the classifier
MaxTitleLen == 3
\* most anchors on a fetched page
MaxLinks == 2
\* longest text drawn for the whitespace clean-up
MaxTextLen == 6

-----------------------------------------------------------------------------
(* Strings                                                                 *)

\* str.lower() on one piece of a string: a character of a keyword or title,
\* or a token of a URL, an anchor text, a header or an attribute
Lower(c) ==
    CASE c = "A" -> "a"
      [] c = "B" -> "b"
      [] c = "C" -> "c"
      [] c = ".PDF" -> ".pdf"
      [] c = "HTTPS://" -> "https://"
      [] c = "Application/PDF" -> "application/pdf"
      [] c = "Klimaat" -> "klimaat"
      [] c = "Nederland" -> "nederland"
      [] c = "Download" -> "download"
      [] c = "(PDF)" -> "(pdf)"
      [] c = "Related-Links" -> "related-links"
      [] OTHER -> c

\* str.lower()
LowerStr(s) == [i \in 1..Len(s) |-> Lower(s[i])]

\* the characters str.strip() removes, those the model draws
Whitespace == {" ", "\n", "\t"}

RECURSIVE LStrip(_)
LStrip(s) ==
    IF s # <<>> /\ Head(s) \in Whitespace THEN LStrip(Tail(s)) ELSE s

RECURSIVE RStrip(_)
RStrip(s) ==
    IF s # <<>> /\ s[Len(s)] \in Whitespace
    THEN RStrip(SubSeq(s, 1, Len(s) - 1)) ELSE s

\* str.strip()
Strip(s) == RStrip(LStrip(s))

\* s.startswith(p)
StartsWith(s, p) == Len(s) >= Len(p) /\ SubSeq(s, 1, Len(p)) = p

\* s.endswith(p)
EndsWith(s, p) ==
    Len(s) >= Len(p) /\ SubSeq(s, Len(s) - Len(p) + 1, Len(s)) = p

\* a match anchored at the start of the text instead of anywhere in it
ContainsAnchored(p, s) == Len(s) >= Len(p) /\ SubSeq(s, 1, Len(p)) = p

\* the Python substring test `p in s`
Contains(p, s) ==
    \E i \in 0..(Len(s) - Len(p)) : SubSeq(s, i + 1, i + Len(p)) = p

RECURSIVE Flatten(_)
Flatten(seqs) ==
    IF seqs = <<>> THEN <<>> ELSE Head(seqs) \o Flatten(Tail(seqs))

\* sep.join(parts)
RECURSIVE Join(_, _)
Join(sep, parts) ==
    IF parts = <<>> THEN <<>>
    ELSE IF Len(parts) = 1 THEN parts[1]
    ELSE parts[1] \o sep \o Join(sep, Tail(parts))

-----------------------------------------------------------------------------
(* Keyword files and their loaders (config.py)                             *)

\* a file that does not exist: open() raises FileNotFoundError
Missing == << <<"<missing>">> >>

\* `if line and not line.startswith("#") and not line.startswith("["):`
KeepSimpleLine(line) ==
    /\ line # <<>>
    /\ ~StartsWith(line, <<"#">>)
    /\ ~StartsWith(line, <<"[">>)

\* config._load_simple_list
LoadSimpleList(file) ==
    IF file = Missing THEN <<>>
    ELSE LET stripped == [i \in 1..Len(file) |-> Strip(file[i])]
             kept == SelectSeq(stripped, KeepSimpleLine)
         IN [i \in 1..Len(kept) |-> LowerStr(kept[i])]

\* config.load_tier1_keywords / config.load_context_words
LoadTier1Keywords(c) == LoadSimpleList(c.tier1)
LoadContextWords(c) == LoadSimpleList(c.context)

\* themes[name] = [] on an insertion-ordered dict
DictReset(themes, name) ==
    IF \E i \in 1..Len(themes) : themes[i].name = name
    THEN [i \in 1..Len(themes) |->
            IF themes[i].name = name
            THEN [name |-> name, keywords |-> <<>>] ELSE themes[i]]
    ELSE Append(themes, [name |-> name, keywords |-> <<>>])

\* themes[name].append(kw)
DictAppend(themes, name, kw) ==
    [i \in 1..Len(themes) |->
        IF themes[i].name = name
        THEN [name |-> name, keywords |-> Append(themes[i].keywords, kw)]
        ELSE themes[i]]

\* the loop body of config.load_tier2_themes; cur.set = FALSE is None
RECURSIVE LoadThemesFrom(_, _, _)
LoadThemesFrom(lines, themes, cur) ==
    IF lines = <<>> THEN themes
    ELSE LET line == Strip(Head(lines))
             rest == Tail(lines)
         IN IF line = <<>> \/ StartsWith(line, <<"#">>)
            THEN LoadThemesFrom(rest, themes, cur)
            ELSE IF StartsWith(line, <<"[">>) /\ EndsWith(line, <<"]">>)
            THEN LET name == SubSeq(line, 2, Len(line) - 1)
                 IN LoadThemesFrom(rest, DictReset(themes, name),
                                   [set |-> TRUE, name |-> name])
            ELSE IF cur.set /\ cur.name # <<>>
            THEN LoadThemesFrom(rest,
                                DictAppend(themes, cur.name, LowerStr(line)),
                                cur)
            ELSE LoadThemesFrom(rest, themes, cur)

\* config.load_tier2_themes: insertion-ordered dict theme -> keywords
LoadTier2Themes(c) ==
    IF c.tier2 = Missing THEN <<>>
    ELSE LoadThemesFrom(c.tier2, <<>>, [set |-> FALSE, name |-> <<>>])

-----------------------------------------------------------------------------
(* check_relevance (filter.py)                                             *)

\* Optional[...] = None for the tier and the theme of a FilterResult
NoTier == 0
NoTheme == <<"<None>">>

MultiThemeMarker == <<"(multi-theme match)">>

\* [kw for kw in keywords if kw in text]
Matches(keywords, text) == SelectSeq(keywords, LAMBDA kw : Contains(kw, text))

\* the names of the themes with a matching keyword: the Python set
\* matched_themes
MatchedThemes(themes, text) ==
    {themes[i].name : i \in {j \in 1..Len(themes) :
                                Matches(themes[j].keywords, text) # <<>>}}

\* Iteration order of a set of str. It is the order of the hash slots, which
\* str hash randomisation fixes per interpreter process: seed maps every
\* theme name to its slot.
RECURSIVE SetIterOrder(_, _)
SetIterOrder(S, seed) ==
    IF S = {} THEN <<>>
    ELSE LET first == CHOOSE x \in S : \A y \in S : seed[x] <= seed[y]
         IN <<first>> \o SetIterOrder(S \ {first}, seed)

\* `if tier1_matches is not None:`
Tier1FiresOnAnyList(tier1_matches) == TRUE

\* `if tier1_matches:` (filter.py:48)
Tier1Fires(tier1_matches) == tier1_matches # <<>>

\* the context check left out, so that context terms never count
HasContextNever(context_matches) == FALSE
\* a context check that asks for two context words
HasContextTwice(context_matches) == Len(context_matches) >= 2

\* `if context_matches:` (filter.py:65)
HasContext(context_matches) == context_matches # <<>>

\* cross-theme rules with an off-by-one threshold
CrossThemeAtLeastOne(matched_themes) == Cardinality(matched_themes) >= 1
CrossThemeAtLeastThree(matched_themes) == Cardinality(matched_themes) >= 3

\* `if len(matched_themes) >= 2:` (filter.py:88)
CrossThemeCorroborated(matched_themes) == Cardinality(matched_themes) >= 2

\* the loop over the themes runs on to the last theme with a match
LastTheme(hits) == CHOOSE i \in hits : \A j \in hits : i >= j

\* `for theme, keywords in tier2_themes.items()` returns at the first theme
\* with a match
FirstTheme(hits) == CHOOSE i \in hits : \A j \in hits : i <= j

CheckRelevance(title, description, c, seed) ==
    LET text == LowerStr(title \o <<" ">> \o description)
        tier1_keywords == LoadTier1Keywords(c)
        tier1_matches == Matches(tier1_keywords, text)
        context_words == LoadContextWords(c)
        context_matches == Matches(context_words, text)
        tier2_themes == LoadTier2Themes(c)
        hits == {i \in 1..Len(tier2_themes) :
                    Matches(tier2_themes[i].keywords, text) # <<>>}
        firstHit == FirstTheme(hits)
        all_tier2_matches ==
            Flatten([i \in 1..Len(tier2_themes) |->
                        Matches(tier2_themes[i].keywords, text)])
        matched_themes == MatchedThemes(tier2_themes, text)
    IN  IF Tier1Fires(tier1_matches)
        THEN [is_relevant |-> TRUE, tier |-> 1,
              matched_keywords |-> tier1_matches,
              matched_context |-> <<>>, theme |-> NoTheme]
        ELSE IF HasContext(context_matches) /\ hits # {}
        THEN [is_relevant |-> TRUE, tier |-> 2,
              matched_keywords |->
                  Matches(tier2_themes[firstHit].keywords, text),
              matched_context |-> context_matches,
              theme |-> tier2_themes[firstHit].name]
        ELSE IF CrossThemeCorroborated(matched_themes)
        THEN [is_relevant |-> TRUE, tier |-> 2,
              matched_keywords |-> all_tier2_matches,
              matched_context |-> <<MultiThemeMarker>>,
              theme |-> Join(<<",", " ">>,
                             SetIterOrder(matched_themes, seed))]
        ELSE [is_relevant |-> FALSE, tier |-> NoTier,
              matched_keywords |-> <<>>, matched_context |-> <<>>,
              theme |-> NoTheme]

-----------------------------------------------------------------------------
(* URLs, anchor texts and attributes (fetcher.py)                          *)
(*                                                                         *)
(* These strings are sequences of tokens: the string is the concatenation  *)
(* of its tokens, and the tokens of an anchor text or a class list are     *)
(* separated by spaces. The tokens are cut so that every pattern the code  *)
(* looks for lies inside one token or is a run of whole tokens.            *)

\* the patterns of the code that occur inside a lower-cased token
Subs(tok) ==
    CASE tok = "(pdf)" -> {"(pdf)", "(pdf", "pdf"}
      [] tok = "pbl-rapport" -> {"pbl-rapport", "rapport"}
      [] tok = "publicaties" -> {"publicaties", "publicatie"}
      [] tok = "related-links" -> {"related-links", "related", "links"}
      [] tok = "navbar" -> {"navbar", "nav"}
      [] tok = "zoek.officielebekendmakingen.nl" ->
            {"zoek.officielebekendmakingen.nl", "officielebekendmakingen.nl"}
      [] tok = "klimaatrisicos" -> {"klimaatrisicos", "klimaat", "risico"}
      [] OTHER -> {tok}

\* `pat in s` for a pattern without a space or a separator
HasToken(pat, s) == \E i \in 1..Len(s) : pat \in Subs(s[i])

\* `pat in s` for a pattern that is a run of tokens
HasRun(pat, s) ==
    \E i \in 0..(Len(s) - Len(pat)) : SubSeq(s, i + 1, i + Len(pat)) = pat

Schemes == {"https://", "http://"}

\* the tokens that begin with "http": the schemes, and a directory name
HttpTokens == Schemes \cup {"httpdocs"}

\* href.startswith("http")
StartsWithHttp(href) == href # <<>> /\ href[1] \in HttpTokens

\* index of the first token of s that is in stops, or Len(s) + 1
RECURSIVE FirstIn(_, _, _)
FirstIn(s, stops, i) ==
    IF i > Len(s) THEN i
    ELSE IF s[i] \in stops THEN i ELSE FirstIn(s, stops, i + 1)

\* urlparse(u): the scheme is matched case-insensitively
HasScheme(u) == u # <<>> /\ Lower(u[1]) \in Schemes

\* urlparse(u).netloc
Netloc(u) ==
    IF HasScheme(u) /\ Len(u) >= 2 /\ u[2] \notin {"/", "?", "#"}
    THEN <<u[2]>> ELSE <<>>

\* urlparse(u) raises ValueError("Invalid IPv6 URL") on an unbalanced bracket
\* in the netloc
UrlParseRaises(u) == Netloc(u) = <<"[">>

\* urlparse(u).path
UrlPath(u) ==
    LET rest == IF HasScheme(u)
                THEN SubSeq(u, 2 + Len(Netloc(u)), Len(u)) ELSE u
    IN SubSeq(rest, 1, FirstIn(rest, {"?", "#"}, 1) - 1)

\* path.split("/")[-1]
RECURSIVE LastSegment(_)
LastSegment(path) ==
    IF path = <<>> THEN <<>>
    ELSE IF path[Len(path)] = "/" THEN <<>>
    ELSE Append(LastSegment(SubSeq(path, 1, Len(path) - 1)), path[Len(path)])

-----------------------------------------------------------------------------
(* ContentFetcher._is_pdf                                                  *)

\* a check of the Content-Type header alone
IsPdfByHeaderOnly(url, content_type) == content_type = "application/pdf"

IsPdf(url, content_type) ==
    \/ "application/pdf" \in Subs(content_type)
    \/ LET path == LowerStr(UrlPath(url))
       IN path # <<>> /\ path[Len(path)] = ".pdf"

-----------------------------------------------------------------------------
(* ContentFetcher._get_link_context_penalty                                *)

PeripheralTags == {"aside", "footer", "nav"}

SuspiciousClasses ==
    {"related", "sidebar", "footer", "widget", "aside", "publicaties",
     "gerelateerd", "more", "extra", "recommended", "also", "links", "nav"}

\* `for susp in suspicious_classes: if susp in parent_classes`
ClassSuspicious(parent) ==
    \E susp \in SuspiciousClasses : HasToken(susp, LowerStr(parent.class))

\* `for susp in suspicious_classes: if susp in parent_id`
IdSuspicious(parent) ==
    \E susp \in SuspiciousClasses : HasToken(susp, LowerStr(parent.id))

\* only the element the anchor stands in is inspected
WalkNearestParent(parents) ==
    IF parents = <<>> THEN 0
    ELSE LET parent == Head(parents)
         IN IF parent.name \in PeripheralTags THEN 50
            ELSE (IF ClassSuspicious(parent) THEN 40 ELSE 0)
                 + (IF IdSuspicious(parent) THEN 40 ELSE 0)

\* the loop over link.parents, nearest ancestor first
RECURSIVE WalkParents(_)
WalkParents(parents) ==
    IF parents = <<>> THEN 0
    ELSE LET parent == Head(parents)
             penalty == (IF ClassSuspicious(parent) THEN 40 ELSE 0)
                        + (IF IdSuspicious(parent) THEN 40 ELSE 0)
         IN IF parent.name \in PeripheralTags THEN 50
            ELSE IF penalty > 0 THEN penalty
            ELSE WalkParents(Tail(parents))

PenaltyCap == 60

\* `min(penalty, 30)`
ContextPenaltyCappedAtThirty(link) ==
    LET penalty == WalkParents(link.parents)
    IN IF penalty < 30 THEN penalty ELSE 30

GetLinkContextPenalty(link) ==
    LET penalty == WalkParents(link.parents)
    IN IF penalty < PenaltyCap THEN penalty ELSE PenaltyCap

-----------------------------------------------------------------------------
(* ContentFetcher._get_title_match_score                                   *)

StopWords ==
    {"deze", "voor", "over", "naar", "door", "zijn", "wordt", "worden",
     "hebben", "heeft", "ging", "hier", "daar", "toen", "maar", "meer"}

\* re.findall(r"\b\w{4,}\b", article_title.lower()) without the stop words
TitleWords(article_title) ==
    SelectSeq(LowerStr(article_title),
              LAMBDA w : Len(w) >= 4 /\ w \notin StopWords)

\* re.sub(r"\.pdf$", "", filename)
DropPdfExtension(filename) ==
    IF filename # <<>> /\ filename[Len(filename)] = ".pdf"
    THEN SubSeq(filename, 1, Len(filename) - 1) ELSE filename

\* the file name of the URL, lower-cased, without a final ".pdf" and with
\* "-" and "_" turned to spaces
FilenameClean(pdf_url) ==
    SelectSeq(DropPdfExtension(LowerStr(LastSegment(UrlPath(pdf_url)))),
              LAMBDA t : t \notin {"-", "_"})

\* sum(1 for word in title_words if word in filename_clean)
TitleMatches(article_title, pdf_url) ==
    LET title_words == TitleWords(article_title)
    IN Cardinality({i \in 1..Len(title_words) :
                        HasToken(title_words[i], FilenameClean(pdf_url))})

GetTitleMatchScore(article_title, pdf_url) ==
    LET title_words == TitleWords(article_title)
        matches == TitleMatches(article_title, pdf_url)
    IN  IF article_title = <<>> THEN 0
        ELSE IF title_words = <<>> THEN 0
        ELSE IF 10 * matches >= 4 * Len(title_words) THEN 40
        ELSE IF 10 * matches >= 2 * Len(title_words) THEN 20
        ELSE IF matches = 0 /\ Len(title_words) >= 3 THEN -50
        ELSE 0

-----------------------------------------------------------------------------
(* ContentFetcher._find_pdf_download_link                                  *)

MIN_SCORE_THRESHOLD == 120

\* a threshold that one boost reaches on its own
AcceptsFromSeventy(score) == score >= 70
\* `>` written for `>=`
AcceptsStrictly(score) == score > MIN_SCORE_THRESHOLD

\* `if best_match[0] >= MIN_SCORE_THRESHOLD:`
Accepts(score) == score >= MIN_SCORE_THRESHOLD

DocSections ==
    {"kamerstukken", "rapporten", "publicaties", "documenten",
     "beleidsnotas", "brieven", "besluiten"}

\* any(doc_type in page_url_lower for doc_type in [...])
IsDocPage(page_url) ==
    \E d \in DocSections : HasRun(<<"/", d, "/">>, LowerStr(page_url))

B(cond, points) == IF cond THEN points ELSE 0

Max(a, b) == IF a >= b THEN a ELSE b

RECURSIVE Sum(_)
Sum(terms) == IF terms = <<>> THEN 0 ELSE Head(terms) + Sum(Tail(terms))

\* the four `score +=` on the href, in the order of the code
UrlBoostTerms(href) ==
    LET href_lower == LowerStr(href)
    IN  << B(href_lower # <<>> /\ href_lower[Len(href_lower)] = ".pdf", 100),
           B(HasToken("open.overheid.nl", href_lower)
               /\ HasRun(<<"/", "file">>, href_lower), 90),
           B(HasToken("officielebekendmakingen.nl", href_lower), 80),
           B(HasToken(".pdf", href_lower), 70) >>

RECURSIVE Largest(_)
Largest(terms) ==
    IF terms = <<>> THEN 0 ELSE Max(Head(terms), Largest(Tail(terms)))

\* the href tests chained by elif: only the largest boost counts
UrlBoostsLargestOnly(href) == Largest(UrlBoostTerms(href))

\* the boosts from the href (fetcher.py:236-250)
UrlBoosts(href) == Sum(UrlBoostTerms(href))

\* the boost is given on every page
PageBoostOnEveryPage(page_url) == 50

\* the boost from the page URL (fetcher.py:255-261)
PageBoost(page_url) == B(IsDocPage(page_url), 50)

\* the three `score +=` on the link text, in the order of the code
TextBoostTerms(text) ==
    << B(HasToken("download", text)
           /\ (HasToken("pdf", text) \/ HasToken("rapport", text)
                 \/ HasToken("advies", text)), 50),
       B(HasToken("(pdf", text), 40),
       B(HasToken("volledige", text)
           /\ (HasToken("advies", text) \/ HasToken("rapport", text)), 30) >>

\* the boosts from the link text (fetcher.py:264-271)
TextBoosts(text) == Sum(TextBoostTerms(text))

\* supplementary_texts, each phrase as its run of tokens; "bron " is the
\* token "bron" with a space, that is another token, behind it
SupplementaryTexts ==
    {<<"gerelateerd">>, <<"meer", "lezen">>, <<"achtergrond">>,
     <<"bijlage">>, <<"zie", "ook">>, <<"lees", "ook">>, <<"related">>,
     <<"background">>, <<"publicatie">>, <<"bron:">>}

\* `supp_text in text`
HasPhrase(phrase, text) ==
    IF Len(phrase) = 1 THEN HasToken(phrase[1], text) ELSE HasRun(phrase, text)

HasBronSpace(text) == \E i \in 1..(Len(text) - 1) : "bron" \in Subs(text[i])

\* every supplementary phrase found costs 40
TextPenaltiesPerPhrase(text) ==
      40 * Cardinality({supp_text \in SupplementaryTexts :
                            HasPhrase(supp_text, text)})
    + B(HasBronSpace(text), 40)
    + B(HasToken("rapport", text) \/ HasToken("advies", text)
          \/ HasToken("publicatie", text), 20)

\* the penalties from the link text (fetcher.py:286-300)
TextPenalties(text) ==
      B((\E supp_text \in SupplementaryTexts : HasPhrase(supp_text, text))
          \/ HasBronSpace(text), 40)
    + B(HasToken("rapport", text) \/ HasToken("advies", text)
          \/ HasToken("publicatie", text), 20)

\* the title adjustment (fetcher.py:305-318)
TitleAdjustment(article_title, href, text) ==
    IF article_title = <<>> THEN 0
    ELSE Max(GetTitleMatchScore(article_title, href),
             IF text # <<>> THEN GetTitleMatchScore(article_title, text)
             ELSE 0)

\* f"{parsed_page.scheme}://{parsed_page.netloc}"
BaseUrl(page_url) == <<Lower(page_url[1])>> \o Netloc(page_url)

\* the zero test made on the total once penalties and title match are in
NoSignalInTotal(boost, score) == score = 0

\* `if score == 0: continue` (fetcher.py:274), made when score holds the
\* boosts alone
NoSignal(boost, score) == boost = 0

\* One pass of the loop body for the anchor at position idx:
\*   skip  - `continue` (empty href, zero boost, or relative href)
\*   raise - urlparse raised inside _get_title_match_score
\*   cand  - appended to pdf_candidates
ScoreLink(link, idx, page_url, article_title) ==
    LET href == Strip(link.href)
        text == LowerStr(link.text)
        boost == UrlBoosts(href) + PageBoost(page_url) + TextBoosts(text)
        score == boost - GetLinkContextPenalty(link) - TextPenalties(text)
                 + TitleAdjustment(article_title, href, text)
        skip == [kind |-> "skip", idx |-> idx, score |-> 0, href |-> <<>>]
    IN  IF href = <<>> THEN skip
        ELSE IF NoSignal(boost, score) THEN skip
        ELSE IF article_title # <<>>
                /\ (UrlParseRaises(href)
                      \/ (text # <<>> /\ UrlParseRaises(text)))
        THEN [kind |-> "raise", idx |-> idx, score |-> 0, href |-> <<>>]
        ELSE IF StartsWith(href, <<"/">>)
        THEN [kind |-> "cand", idx |-> idx, score |-> score,
              href |-> BaseUrl(page_url) \o href]
        ELSE IF ~StartsWithHttp(href) THEN skip
        ELSE [kind |-> "cand", idx |-> idx, score |-> score, href |-> href]

\* c placed before the elements of its own score
RECURSIVE InsertBeforeTies(_, _)
InsertBeforeTies(sorted, c) ==
    IF sorted = <<>> THEN <<c>>
    ELSE IF Head(sorted).score > c.score
    THEN <<Head(sorted)>> \o InsertBeforeTies(Tail(sorted), c)
    ELSE <<c>> \o sorted

\* c placed behind every element that does not score lower
RECURSIVE InsertByScore(_, _)
InsertByScore(sorted, c) ==
    IF sorted = <<>> THEN <<c>>
    ELSE IF Head(sorted).score >= c.score
    THEN <<Head(sorted)>> \o InsertByScore(Tail(sorted), c)
    ELSE <<c>> \o sorted

\* the candidates left in document order
LeftUnsorted(cands) == cands

\* pdf_candidates.sort(key=lambda x: x[0], reverse=True): a stable sort
RECURSIVE SortByScore(_)
SortByScore(cands) ==
    IF cands = <<>> THEN <<>>
    ELSE InsertByScore(SortByScore(SubSeq(cands, 1, Len(cands) - 1)),
                       cands[Len(cands)])

NoUrl == <<>>

NotScored ==
    [ran |-> FALSE, raised |-> FALSE, candidates |-> <<>>, pdf_url |-> NoUrl]

-----------------------------------------------------------------------------
(* ContentFetcher.fetch and its helpers                                    *)

NoFile == <<>>

\* fetch returned None
NoneResult == [type |-> "none", file_path |-> NoFile, text_from |-> NoUrl]

\* A payload is what its readers make of it: magic is content[:4] == b"%PDF",
\* readable says PdfReader extracts its pages without raising, parses says
\* BeautifulSoup(html_content, "html.parser") returns, links are the anchors
\* with an href attribute in document order.
NoBody == [magic |-> FALSE, readable |-> FALSE, parses |-> FALSE, links |-> <<>>]

NoResponse == [status |-> "none", content_type |-> "", body |-> NoBody]

\* PdfReader raises on every payload
ProcessPdfNeverReads(content, url) == NoneResult

\* _process_pdf: the payload is written to the PDF folder, then read
ProcessPdf(content, url) ==
    IF content.readable
    THEN [type |-> "pdf", file_path |-> url, text_from |-> url]
    ELSE NoneResult

\* _process_html: None when the parser raises on the payload
ProcessHtml(html_content, url) ==
    IF html_content.parses
    THEN [type |-> "html", file_path |-> NoFile, text_from |-> url]
    ELSE NoneResult

\* the length of the run of ch that s starts with
RECURSIVE RunLen(_, _)
RunLen(s, ch) ==
    IF s # <<>> /\ Head(s) = ch THEN 1 + RunLen(Tail(s), ch) ELSE 0

\* re.sub of a pattern ch{least,}: every maximal run of ch of at least that
\* length becomes the replacement
RECURSIVE ReSubRuns(_, _, _, _)
ReSubRuns(s, ch, least, replacement) ==
    LET n == RunLen(s, ch)
    IN  IF s = <<>> THEN <<>>
        ELSE IF n >= least
        THEN replacement
               \o ReSubRuns(SubSeq(s, n + 1, Len(s)), ch, least, replacement)
        ELSE IF n > 0
        THEN SubSeq(s, 1, n)
               \o ReSubRuns(SubSeq(s, n + 1, Len(s)), ch, least, replacement)
        ELSE <<Head(s)>> \o ReSubRuns(Tail(s), ch, least, replacement)

\* re.sub(r"\n{3,}", "\n\n", text)
CollapseNewlines(s) == ReSubRuns(s, "\n", 3, <<"\n", "\n">>)

\* re.sub(r" {2}", " ", text): pairs of spaces, not runs
RECURSIVE CollapseSpacePairs(_)
CollapseSpacePairs(s) ==
    IF s = <<>> THEN <<>>
    ELSE IF Len(s) >= 2 /\ s[1] = " " /\ s[2] = " "
    THEN <<" ">> \o CollapseSpacePairs(SubSeq(s, 3, Len(s)))
    ELSE <<Head(s)>> \o CollapseSpacePairs(Tail(s))

\* re.sub(r" {2,}", " ", text)
CollapseSpaces(s) == ReSubRuns(s, " ", 2, <<" ">>)

\* the clean-up of the extracted text (fetcher.py:515-519)
CleanUpWhitespace(s) == Strip(CollapseSpaces(CollapseNewlines(s)))

\* True when _download_pdf_from_url hands the response to _process_pdf
SubFetchIsPdf(response) ==
    /\ response.status = "ok"
    /\ \/ "application/pdf" \in Subs(Lower(response.content_type))
       \/ response.body.magic

\* _download_pdf_from_url
DownloadPdfFromUrl(response, pdf_url) ==
    IF SubFetchIsPdf(response) THEN ProcessPdf(response.body, pdf_url)
    ELSE NoneResult

\* the sub-fetch result returned whatever it is
PropagateSubFetch(pdf_result, html_result) == pdf_result

\* `if pdf_result: return pdf_result` ... `return self._process_html(...)`
SubFetchOrFallback(pdf_result, html_result) ==
    IF pdf_result # NoneResult THEN pdf_result ELSE html_result

-----------------------------------------------------------------------------
(* The fetcher run on bounded inputs                                       *)

TitleNone == <<>>
\* four meaningful words and the stop word "voor"
TitleNota == <<"Klimaat", "risico", "nota", "voor", "Nederland">>
Titles4Fetch == {TitleNone, TitleNota}

\* a document page, a news page, a URL ending in .PDF, a download URL
UrlDocPage == <<"https://", "www.pbl.nl", "/", "publicaties", "/", "klimaat">>
UrlNewsPage == <<"https://", "www.uvw.nl", "/", "nieuws", "/", "water">>
UrlPdfFile == <<"https://", "www.pbl.nl", "/", "docs", "/", "nota", ".PDF">>
UrlDownload == <<"https://", "www.pbl.nl", "/", "get", "?", "f=", "nota", ".pdf">>
PageUrls == {UrlDocPage, UrlNewsPage, UrlPdfFile, UrlDownload}

HrefMain ==
    <<"https://", "www.pbl.nl", "/", "docs", "/",
      "klimaat", "-", "risico", "-", "nota", ".pdf">>
HrefOther == <<"https://", "www.pbl.nl", "/", "docs", "/", "bijlage", ".PDF">>
HrefRoot == <<"/", "files", "/", "klimaat", "_", "atlas", ".pdf">>
HrefRelative == <<"docs", "/", "klimaatrisicos", "-", "nota", ".pdf">>
HrefUpperScheme == <<"HTTPS://", "www.pbl.nl", "/", "nota", ".pdf">>
HrefRepository == <<"https://", "open.overheid.nl", "/", "file", "/", "abc">>
HrefGazette ==
    <<"https://", "zoek.officielebekendmakingen.nl", "/", "kst-1", ".html">>
HrefQueryPdf == <<"https://", "www.pbl.nl", "/", "get", "?", "f=", "nota", ".pdf">>
HrefPdfInside == <<"https://", "www.pbl.nl", "/", "nota", ".pdf", "?", "dl=1">>
HrefNews == <<"/", "nieuws", "/", "item">>
HrefEmpty == <<" ">>
HrefBadNetloc == <<"https://", "[", "/", "a", ".pdf">>
HrefBadNetlocPlain == <<"https://", "[", "/", "a">>
HrefHttpDir == <<"httpdocs", "/", "nota", ".pdf">>

Hrefs ==
    {HrefMain, HrefOther, HrefRoot, HrefRelative, HrefUpperScheme,
     HrefRepository, HrefGazette, HrefQueryPdf, HrefPdfInside, HrefNews,
     HrefEmpty, HrefBadNetloc, HrefBadNetlocPlain, HrefHttpDir}

TextNone == <<>>
TextDownload == <<"Download", "(PDF)">>
TextFull == <<"volledige", "pbl-rapport">>
TextRelated == <<"zie", "ook", "publicaties">>
TextTitle == <<"Klimaat", "risico">>

ParentsMain ==
    << [name |-> "p", class |-> <<>>, id |-> <<>>],
       [name |-> "main", class |-> <<"content">>, id |-> <<"top">>] >>
ParentsNav ==
    << [name |-> "li", class |-> <<>>, id |-> <<>>],
       [name |-> "nav", class |-> <<"related-links">>, id |-> <<>>] >>
ParentsRelated ==
    << [name |-> "div", class |-> <<"box", "Related-Links">>,
        id |-> <<"sidebar">>],
       [name |-> "footer", class |-> <<>>, id |-> <<>>] >>
ParentsWidget ==
    << [name |-> "span", class |-> <<>>, id |-> <<>>],
       [name |-> "div", class |-> <<"widget">>, id |-> <<>>],
       [name |-> "aside", class |-> <<>>, id |-> <<>>] >>

\* the anchors a page is made of
Links ==
    { [href |-> h, text |-> TextNone, parents |-> ParentsMain] : h \in Hrefs }
    \cup
    { [href |-> h, text |-> t, parents |-> ParentsMain] :
        h \in {HrefMain, HrefOther}, t \in {TextDownload, TextRelated} }
    \cup
    { [href |-> h, text |-> TextNone, parents |-> p] :
        h \in {HrefMain, HrefOther}, p \in {ParentsNav, ParentsWidget} }
    \cup
    { [href |-> HrefOther, text |-> TextTitle, parents |-> ParentsRelated],
      [href |-> HrefMain, text |-> TextDownload, parents |-> ParentsWidget],
      [href |-> HrefNews, text |-> TextFull, parents |-> ParentsMain],
      [href |-> HrefNews, text |-> TextTitle, parents |-> ParentsMain],
      [href |-> HrefNews, text |-> TextDownload, parents |-> ParentsNav] }

RECURSIVE LinkSeqs(_)
LinkSeqs(n) ==
    IF n = 0 THEN {<<>>}
    ELSE LET shorter == LinkSeqs(n - 1)
         IN shorter \cup {Append(ls, l) : ls \in shorter, l \in Links}

\* payloads: a PDF, a damaged PDF, bytes that are neither, HTML pages
PdfBodies ==
    { [magic |-> TRUE, readable |-> TRUE, parses |-> TRUE, links |-> <<>>],
      [magic |-> TRUE, readable |-> FALSE, parses |-> TRUE, links |-> <<>>],
      [magic |-> FALSE, readable |-> TRUE, parses |-> TRUE, links |-> <<>>] }
HtmlBodies ==
    { [magic |-> FALSE, readable |-> FALSE, parses |-> TRUE, links |-> ls] :
        ls \in LinkSeqs(MaxLinks) }
    \cup {NoBody}

ContentTypes == {"text/html", "Application/PDF"}

\* requests.get raised Timeout / another RequestException (raise_for_status
\* included)
FailedResponses ==
    { [status |-> st, content_type |-> "", body |-> NoBody] :
        st \in {"timeout", "error"} }

PageResponses ==
    FailedResponses
    \cup { [status |-> "ok", content_type |-> ct, body |-> b] :
            ct \in ContentTypes, b \in PdfBodies }
    \cup { [status |-> "ok", content_type |-> "text/html", body |-> b] :
            b \in HtmlBodies }

SubResponses ==
    FailedResponses
    \cup { [status |-> "ok", content_type |-> ct, body |-> b] :
            ct \in ContentTypes,
            b \in PdfBodies \cup {[magic |-> FALSE, readable |-> FALSE,
                                   parses |-> TRUE, links |-> <<>>]} }

\* the outcome of the loop body for every anchor, page URL and title of the
\* run (the link's position is filled in by the loop)
LoopBody ==
    [link \in Links, page_url \in PageUrls, article_title \in Titles4Fetch |->
        ScoreLink(link, 0, page_url, article_title)]

\* _find_pdf_download_link: raised when the loop was left by an exception,
\* else the sorted candidates and the returned URL (NoUrl for None)
FindPdfDownloadLink(links, page_url, article_title) ==
    LET outcomes == [i \in 1..Len(links) |->
                        [LoopBody[links[i], page_url, article_title]
                            EXCEPT !.idx = i]]
        pdf_candidates ==
            SortByScore(SelectSeq(outcomes, LAMBDA o : o.kind = "cand"))
    IN  IF \E i \in 1..Len(links) : outcomes[i].kind = "raise"
        THEN [ran |-> TRUE, raised |-> TRUE, candidates |-> <<>>,
              pdf_url |-> NoUrl]
        ELSE [ran |-> TRUE, raised |-> FALSE, candidates |-> pdf_candidates,
              pdf_url |-> IF pdf_candidates # <<>>
                             /\ Accepts(pdf_candidates[1].score)
                          THEN pdf_candidates[1].href ELSE NoUrl]

\* requests.get raises MissingSchema / InvalidURL before anything is sent
Unrequestable(url) == ~HasScheme(url) \/ UrlParseRaises(url)

\* the outcomes of requests.get(pdf_url)
SubResponsesFor(pdf_url) ==
    IF Unrequestable(pdf_url)
    THEN {[status |-> "error", content_type |-> "", body |-> NoBody]}
    ELSE SubResponses

NoCall == [url |-> NoUrl, title |-> <<>>]

FetchIdle ==
    /\ pc = "idle"
    /\ call = NoCall
    /\ html = NoBody
    /\ resp = NoResponse
    /\ requests = <<>>
    /\ written = <<>>
    /\ scored = NotScored
    /\ result = NoneResult

FilterIdle ==
    /\ cfg = [tier1 |-> Missing, context |-> Missing, tier2 |-> Missing]
    /\ hashSeed = [n \in {} |-> 0]
    /\ item = [title |-> <<>>, description |-> <<>>]
    /\ runs = <<>>

NormIdle ==
    /\ raw = <<>>
    /\ passes = <<>>

\* an entry without title, link and summary
NoEntry == [title |-> <<>>, link |-> NoUrl, summary |-> <<>>]

\* the counters of RSSIngester.__init__
NoStats ==
    [entries_found |-> 0, entries_filtered |-> 0,
     entries_skipped_existing |-> 0, entries_fetched |-> 0,
     entries_failed |-> 0, entries_stored |-> 0]

IngestIdle ==
    /\ step = "idle"
    /\ entry = NoEntry
    /\ got = NoneResult
    /\ db = <<>>
    /\ stats = NoStats
    /\ trail = <<>>
    /\ linked = 0

\* no second run
OtherIdle == other = [step |-> "idle", entry |-> NoEntry, stats |-> NoStats]

\* no call of check_relevance has read a keyword file
NothingRead == [tier1 |-> Missing, context |-> Missing, tier2 |-> Missing]

ReloadIdle ==
    /\ loading = "idle"
    /\ snapshot = NothingRead
    /\ versions = <<>>
    /\ seen = <<>>

\* an empty PDF folder
NamesIdle ==
    /\ clock = 0
    /\ folder = {}
    /\ saved = <<>>

InitFetch ==
    FetchIdle /\ FilterIdle /\ NormIdle /\ IngestIdle /\ ReloadIdle
        /\ NamesIdle /\ OtherIdle

\* fetch(url, source_name, title) is called and issues requests.get(url)
Fetch ==
    /\ pc = "idle"
    /\ \E u \in PageUrls, t \in Titles4Fetch :
        call' = [url |-> u, title |-> t]
    /\ requests' = <<call'.url>>
    /\ pc' = "awaiting_page"
    /\ UNCHANGED <<html, resp, written, scored, result>>
    /\ UNCHANGED notFetchVars

\* the first requests.get returns or raises, and fetch runs on to its return
\* or to the second requests.get
PageResponse ==
    /\ pc = "awaiting_page"
    /\ \E r \in PageResponses :
        LET found == FindPdfDownloadLink(r.body.links, call.url, call.title)
        IN
        /\ resp' = [r EXCEPT !.body = NoBody]
        /\ IF r.status # "ok"
           THEN /\ result' = NoneResult
                /\ pc' = "done"
                /\ UNCHANGED <<html, requests, written, scored>>
           ELSE IF IsPdf(call.url, Lower(r.content_type))
           THEN /\ result' = ProcessPdf(r.body, call.url)
                /\ written' = Append(written, call.url)
                /\ pc' = "done"
                /\ html' = [r.body EXCEPT !.links = <<>>]
                /\ UNCHANGED <<requests, scored>>
           ELSE IF ~r.body.parses
           THEN /\ result' = ProcessHtml(r.body, call.url)
                /\ pc' = "done"
                /\ html' = r.body
                /\ UNCHANGED <<requests, written, scored>>
           ELSE /\ html' = r.body
                /\ scored' = found
                /\ UNCHANGED written
                /\ IF found.pdf_url # NoUrl
                   THEN /\ requests' = Append(requests, found.pdf_url)
                        /\ pc' = "awaiting_pdf"
                        /\ UNCHANGED result
                   ELSE /\ result' = ProcessHtml(r.body, call.url)
                        /\ pc' = "done"
                        /\ UNCHANGED requests
    /\ UNCHANGED call
    /\ UNCHANGED notFetchVars

\* the second requests.get returns or raises, and fetch returns; html_content
\* and the candidate list are dead once the fallback has been computed
PdfResponse ==
    /\ pc = "awaiting_pdf"
    /\ \E r \in SubResponsesFor(scored.pdf_url) :
        /\ resp' = r
        /\ result' = SubFetchOrFallback(
                        DownloadPdfFromUrl(r, scored.pdf_url),
                        ProcessHtml(html, call.url))
        /\ written' = IF SubFetchIsPdf(r)
                      THEN Append(written, scored.pdf_url) ELSE written
    /\ pc' = "done"
    /\ html' = NoBody
    /\ scored' = [scored EXCEPT !.candidates = <<>>]
    /\ UNCHANGED <<call, requests>>
    /\ UNCHANGED notFetchVars

\* the caller takes the result; the next call starts afresh
Return ==
    /\ pc = "done"
    /\ pc' = "idle"
    /\ call' = NoCall
    /\ html' = NoBody
    /\ resp' = NoResponse
    /\ requests' = <<>>
    /\ written' = <<>>
    /\ scored' = NotScored
    /\ result' = NoneResult
    /\ UNCHANGED notFetchVars

NextFetch == Fetch \/ PageResponse \/ PdfResponse \/ Return

SpecFetch == InitFetch /\ [][NextFetch]_vars

-----------------------------------------------------------------------------
(* The classifier run on bounded inputs                                    *)

\* characters of titles and descriptions
TextChars == {"a", "b", "c", "A"}

RECURSIVE StringsUpTo(_)
StringsUpTo(n) ==
    IF n = 0 THEN {<<>>}
    ELSE LET shorter == StringsUpTo(n - 1)
         IN shorter \cup {Append(s, ch) : s \in shorter, ch \in TextChars}

Titles == StringsUpTo(MaxTitleLen)
Descriptions == {<<>>, <<"c">>, <<"b">>, <<"B", "a">>}

\* tier1_keywords.txt: a comment line, and " Ab " (stripped and lower-cased)
Tier1FileA == << <<"#", "a">>, <<" ", "A", "b", " ">> >>
\* tier1_keywords.txt: "ba", a skipped "[a" line, a blank line, "ab"
Tier1FileB == << <<"b", "a">>, <<"[", "a">>, <<" ">>, <<"a", "b">> >>
Tier1FileEmpty == << >>

ContextFileA == << <<"C">> >>
\* context_words.txt and tier2_keywords.txt without a line
ContextFileEmpty == << >>
Tier2FileEmpty == << >>
ContextFileB == << <<"#", "c">>, <<"c", "c">>, <<"c">> >>

\* tier2_keywords.txt: [X] a  [Y] B
Tier2FileA == << <<"[", "X", "]">>, <<"a">>, <<"[", "Y", "]">>, <<"B">> >>
\* tier2_keywords.txt: a keyword before any header, [Y] twice (the second
\* header empties the theme but keeps its place), [X] in between
Tier2FileB ==
    << <<"b">>, <<"[", "Y", "]">>, <<"b">>, <<"[", "X", "]">>, <<"a">>,
       <<"a", "a">>, <<"[", "Y", "]">>, <<"b", "a">>, <<"b">> >>
\* tier2_keywords.txt: a single theme, and an empty header
Tier2FileC == << <<"[", "X", "]">>, <<"a">>, <<"b">>, <<"[", "]">>, <<"c">> >>

Configs ==
    { [tier1 |-> t1, context |-> cx, tier2 |-> t2] :
        t1 \in {Tier1FileA, Tier1FileB},
        cx \in {ContextFileA},
        t2 \in {Tier2FileA, Tier2FileB, Tier2FileC} }
    \cup
    { [tier1 |-> Tier1FileEmpty, context |-> cx, tier2 |-> t2] :
        cx \in {ContextFileB, Missing},
        t2 \in {Tier2FileA, Tier2FileB} }
    \cup
    { [tier1 |-> Missing, context |-> ContextFileA, tier2 |-> Missing] }
    \cup
    { [tier1 |-> Missing, context |-> Missing, tier2 |-> Missing] }
    \cup
    { [tier1 |-> Tier1FileEmpty, context |-> ContextFileEmpty,
       tier2 |-> Tier2FileEmpty] }

ThemeNames == {<<"X">>, <<"Y">>}

\* the slot orders str hash randomisation can give the theme names
Seeds == {f \in [ThemeNames -> 1..Cardinality(ThemeNames)] :
            \A x, y \in ThemeNames : x # y => f[x] # f[y]}

NoItem == [title |-> <<>>, description |-> <<>>]

InitFilter ==
    /\ cfg \in Configs
    /\ hashSeed \in Seeds
    /\ item = NoItem
    /\ runs = <<>>
    /\ FetchIdle
    /\ NormIdle
    /\ IngestIdle
    /\ ReloadIdle
    /\ NamesIdle
    /\ OtherIdle

\* the first call of check_relevance(title, description) for an item
Classify ==
    /\ runs = <<>>
    /\ \E t \in Titles, d \in Descriptions :
        /\ item' = [title |-> t, description |-> d]
        /\ runs' = <<CheckRelevance(t, d, cfg, hashSeed)>>
    /\ UNCHANGED <<cfg, hashSeed>>
    /\ UNCHANGED notFilterVars

\* check_relevance called again on the same item and configuration
Reclassify ==
    /\ Len(runs) = 1
    /\ runs' = Append(runs, CheckRelevance(item.title, item.description,
                                           cfg, hashSeed))
    /\ UNCHANGED <<cfg, hashSeed, item>>
    /\ UNCHANGED notFilterVars

\* the program is started again (main.py): a new interpreter process draws
\* a new str hash seed
RestartInterpreter ==
    /\ Len(runs) = 1
    /\ \E s \in Seeds \ {hashSeed} : hashSeed' = s
    /\ UNCHANGED <<cfg, item, runs>>
    /\ UNCHANGED notFilterVars

\* the caller moves on to the next feed entry
NextItem ==
    /\ Len(runs) = 2
    /\ item' = NoItem
    /\ runs' = <<>>
    /\ UNCHANGED <<cfg, hashSeed>>
    /\ UNCHANGED notFilterVars

NextFilter == Classify \/ Reclassify \/ RestartInterpreter \/ NextItem

SpecFilter == InitFilter /\ [][NextFilter]_vars

-----------------------------------------------------------------------------
(* The whitespace clean-up run on bounded texts                            *)

CleanUpChars == {"a", " ", "\n", "\t"}

RECURSIVE TextsUpTo(_)
TextsUpTo(n) ==
    IF n = 0 THEN {<<>>}
    ELSE LET shorter == TextsUpTo(n - 1)
         IN shorter \cup {Append(s, ch) : s \in shorter, ch \in CleanUpChars}

InitCleanUp ==
    /\ raw \in TextsUpTo(MaxTextLen)
    /\ passes = <<>>
    /\ FilterIdle
    /\ FetchIdle
    /\ IngestIdle
    /\ ReloadIdle
    /\ NamesIdle
    /\ OtherIdle

\* the text extracted from a page is cleaned up
CleanUp ==
    /\ passes = <<>>
    /\ passes' = <<CleanUpWhitespace(raw)>>
    /\ UNCHANGED raw
    /\ UNCHANGED notNormVars

\* the cleaned text is cleaned up again
CleanUpAgain ==
    /\ Len(passes) = 1
    /\ passes' = Append(passes, CleanUpWhitespace(passes[1]))
    /\ UNCHANGED raw
    /\ UNCHANGED notNormVars

NextCleanUp == CleanUp \/ CleanUpAgain

SpecCleanUp == InitCleanUp /\ [][NextCleanUp]_vars

-----------------------------------------------------------------------------
(* RSSIngester._process_entry on the entries of a feed                     *)

\* entries processed in one run
MaxEntries == 3

\* titles: a direct term, a theme term with a context word, a context word
\* alone
EntryTitles == {<<"a", "b">>, <<"a", "c">>, <<"c">>}

\* entry.get("link", "") is empty for an entry without link
Entries ==
    { [title |-> t, link |-> l, summary |-> <<>>] :
        t \in EntryTitles, l \in {NoUrl, UrlNewsPage, UrlPdfFile} }

IngestConfigs ==
    { [tier1 |-> Tier1FileA, context |-> ContextFileA, tier2 |-> Tier2FileA],
      [tier1 |-> Tier1FileEmpty, context |-> ContextFileA,
       tier2 |-> Tier2FileA] }

\* what fetcher.fetch(link) can return: None, a stored PDF, the page text
FetchOutcomes(link) ==
    { NoneResult,
      [type |-> "pdf", file_path |-> link, text_from |-> link],
      [type |-> "html", file_path |-> NoFile, text_from |-> link] }

\* a counter that counts every event twice
BumpTwice(counters, name) == [counters EXCEPT ![name] = @ + 2]

\* self.stats[name] += 1
Bump(counters, name) == [counters EXCEPT ![name] = @ + 1]

\* url_exists(url)
UrlExists(url, rows) == \E i \in 1..Len(rows) : rows[i].url = url

\* add_document(url=link, ..., content_type=result["type"],
\* local_file_path=result["file_path"], ...), committed
AddDocument(rows, e, fetched) ==
    Append(rows, [url |-> e.link, title |-> e.title,
                  content_type |-> fetched.type,
                  local_file_path |-> fetched.file_path])

\* a table without the constraint takes every row
CommitsAnyUrl(rows, url) == TRUE

\* url is declared unique=True: the INSERT of a row whose url is stored
\* raises IntegrityError at the commit
Commits(rows, url) == ~UrlExists(url, rows)

\* every fetch result is taken for content
FetchedAnyway(fetched) == TRUE

\* `if not result:` is not taken
Fetched(fetched) == fetched # NoneResult

Called(name, answer) == [call |-> name, answer |-> answer]

InitIngest ==
    /\ cfg \in IngestConfigs
    /\ hashSeed \in Seeds
    /\ item = NoItem
    /\ runs = <<>>
    /\ FetchIdle
    /\ NormIdle
    /\ IngestIdle
    /\ ReloadIdle
    /\ NamesIdle
    /\ OtherIdle

\* _process_entry is called for the next entry of a feed and runs to its
\* return (no link) or to the call of check_relevance
ProcessEntry ==
    /\ step = "idle"
    /\ stats.entries_found < MaxEntries
    /\ \E e \in Entries :
        /\ entry' = e
        /\ step' = IF e.link = NoUrl THEN "idle" ELSE "check_relevance"
        /\ linked' = IF e.link = NoUrl THEN linked ELSE linked + 1
    /\ stats' = Bump(stats, "entries_found")
    /\ trail' = <<>>
    /\ got' = NoneResult
    /\ UNCHANGED <<db, cfg, hashSeed>>
    /\ UNCHANGED notIngestVars

\* check_relevance returns; a filtered entry ends here
FilterEntry ==
    /\ step = "check_relevance"
    /\ LET filter_result ==
            CheckRelevance(entry.title, entry.summary, cfg, hashSeed)
       IN  IF filter_result.is_relevant
           THEN /\ trail' = Append(trail,
                                   Called("check_relevance", "relevant"))
                /\ step' = "url_exists"
                /\ UNCHANGED stats
           ELSE /\ trail' = Append(trail,
                                   Called("check_relevance", "not relevant"))
                /\ stats' = Bump(stats, "entries_filtered")
                /\ step' = "idle"
    /\ UNCHANGED <<entry, got, db, linked, cfg, hashSeed>>
    /\ UNCHANGED notIngestVars

\* url_exists returns; an entry already stored ends here
LookUpLink ==
    /\ step = "url_exists"
    /\ IF UrlExists(entry.link, db)
       THEN /\ trail' = Append(trail, Called("url_exists", "present"))
            /\ stats' = Bump(stats, "entries_skipped_existing")
            /\ step' = "idle"
       ELSE /\ trail' = Append(trail, Called("url_exists", "absent"))
            /\ step' = "fetch"
            /\ UNCHANGED stats
    /\ UNCHANGED <<entry, got, db, linked, cfg, hashSeed>>
    /\ UNCHANGED notIngestVars

\* fetcher.fetch returns; an entry without content ends here
FetchContent ==
    /\ step = "fetch"
    /\ \E fetched \in FetchOutcomes(entry.link) :
        /\ got' = fetched
        /\ trail' = Append(trail, Called("fetch", fetched.type))
        /\ IF Fetched(fetched)
           THEN /\ stats' = Bump(stats, "entries_fetched")
                /\ step' = "add_document"
           ELSE /\ stats' = Bump(stats, "entries_failed")
                /\ step' = "idle"
    /\ UNCHANGED <<entry, db, linked, cfg, hashSeed>>
    /\ UNCHANGED notIngestVars

\* add_document returns the new row, or raises (the commit fails)
StoreDocument ==
    /\ step = "add_document"
    /\ \E committed \in BOOLEAN :
        IF committed /\ Commits(db, entry.link)
        THEN /\ db' = AddDocument(db, entry, got)
             /\ trail' = Append(trail, Called("add_document", "stored"))
             /\ stats' = Bump(stats, "entries_stored")
        ELSE /\ trail' = Append(trail, Called("add_document", "raised"))
             /\ stats' = Bump(stats, "entries_failed")
             /\ UNCHANGED db
    /\ step' = "idle"
    /\ UNCHANGED <<entry, got, linked, cfg, hashSeed>>
    /\ UNCHANGED notIngestVars

NextIngest ==
    ProcessEntry \/ FilterEntry \/ LookUpLink \/ FetchContent
        \/ StoreDocument

SpecIngest == InitIngest /\ [][NextIngest]_vars

-----------------------------------------------------------------------------
(* Two ingestion runs on one database                                      *)

\* entries the second run processes
MaxOtherEntries == 1

\* the entries of the second run: a relevant title, with the links of the
\* first run
OtherEntries == {e \in Entries : e.title = <<"a", "c">> /\ e.link # NoUrl}

InitTwoRuns ==
    /\ cfg = [tier1 |-> Tier1FileA, context |-> ContextFileA,
              tier2 |-> Tier2FileA]
    /\ hashSeed \in Seeds
    /\ item = NoItem
    /\ runs = <<>>
    /\ FetchIdle
    /\ NormIdle
    /\ IngestIdle
    /\ ReloadIdle
    /\ NamesIdle
    /\ OtherIdle

\* the second run's _process_entry up to the return of url_exists
OtherProcessEntry ==
    /\ other.step = "idle"
    /\ other.stats.entries_found < MaxOtherEntries
    /\ \E e \in OtherEntries :
        LET found == Bump(other.stats, "entries_found")
        IN  other' =
              IF ~CheckRelevance(e.title, e.summary, cfg, hashSeed).is_relevant
              THEN [step |-> "idle", entry |-> e,
                    stats |-> Bump(found, "entries_filtered")]
              ELSE IF UrlExists(e.link, db)
              THEN [step |-> "idle", entry |-> e,
                    stats |-> Bump(found, "entries_skipped_existing")]
              ELSE [step |-> "fetch", entry |-> e, stats |-> found]
    /\ UNCHANGED <<filterVars, fetchVars, normVars, ingestVars, reloadVars,
                   namesVars>>

\* the second run's fetch and add_document
OtherStoreDocument ==
    /\ other.step = "fetch"
    /\ \E fetched \in FetchOutcomes(other.entry.link), committed \in BOOLEAN :
        IF ~Fetched(fetched)
        THEN /\ other' = [other EXCEPT !.step = "idle",
                             !.stats = Bump(@, "entries_failed")]
             /\ UNCHANGED db
        ELSE IF committed /\ Commits(db, other.entry.link)
        THEN /\ db' = AddDocument(db, other.entry, fetched)
             /\ other' = [other EXCEPT !.step = "idle",
                             !.stats = Bump(Bump(@, "entries_fetched"),
                                            "entries_stored")]
        ELSE /\ other' = [other EXCEPT !.step = "idle",
                             !.stats = Bump(Bump(@, "entries_fetched"),
                                            "entries_failed")]
             /\ UNCHANGED db
    /\ UNCHANGED <<step, entry, got, stats, trail, linked>>
    /\ UNCHANGED <<filterVars, fetchVars, normVars, reloadVars, namesVars>>

NextTwoRuns == NextIngest \/ OtherProcessEntry \/ OtherStoreDocument

SpecTwoRuns == InitTwoRuns /\ [][NextTwoRuns]_vars

-----------------------------------------------------------------------------
(* check_relevance while the dashboard saves keyword files                 *)

\* items classified in one pass, and files saved meanwhile
MaxItems == 2
MaxSaves == 2

\* what the Zoektermen page can save into each file
Saveable ==
    [tier1 |-> {Tier1FileA, Tier1FileEmpty},
     context |-> {ContextFileA, ContextFileEmpty},
     tier2 |-> {Tier2FileA, Tier2FileEmpty}]

KeywordFiles == {"tier1", "context", "tier2"}

\* the saves made since the pass began
Saved == Len(versions) - 1

InitReload ==
    /\ cfg \in { [tier1 |-> t1, context |-> cx, tier2 |-> t2] :
                    t1 \in Saveable.tier1, cx \in Saveable.context,
                    t2 \in Saveable.tier2 }
    /\ hashSeed \in Seeds
    /\ item = NoItem
    /\ runs = <<>>
    /\ FetchIdle
    /\ NormIdle
    /\ IngestIdle
    /\ NamesIdle
    /\ OtherIdle
    /\ loading = "idle"
    /\ snapshot = NothingRead
    /\ versions = <<cfg>>
    /\ seen = <<>>

\* check_relevance returns: the verdict, and what it was computed from
Returned(files, read) ==
    /\ runs' = Append(runs, CheckRelevance(item.title, item.description,
                                           files, hashSeed))
    /\ seen' = [seen EXCEPT ![Len(seen)] =
                    [@ EXCEPT !.files = files, !.read = read,
                              !.to = Len(versions)]]
    /\ snapshot' = files
    /\ loading' = "idle"

\* check_relevance is called for the next item of the pass
CallCheckRelevance ==
    /\ loading = "idle"
    /\ Len(seen) < MaxItems
    /\ \E t \in EntryTitles : item' = [title |-> t, description |-> <<>>]
    /\ loading' = "tier1"
    /\ snapshot' = NothingRead
    /\ seen' = Append(seen, [files |-> NothingRead, read |-> {},
                             from |-> Len(versions), to |-> 0])
    /\ UNCHANGED <<cfg, hashSeed, runs, versions>>
    /\ UNCHANGED <<fetchVars, normVars, ingestVars, namesVars, otherVars>>

\* config.load_tier1_keywords() reads tier1_keywords.txt; with a match the
\* call returns without opening the other files
ReadTier1 ==
    /\ loading = "tier1"
    /\ LET files == [snapshot EXCEPT !.tier1 = cfg.tier1]
           text == LowerStr(item.title \o <<" ">> \o item.description)
       IN  IF Tier1Fires(Matches(LoadTier1Keywords(files), text))
           THEN Returned(files, {"tier1"})
           ELSE /\ snapshot' = files
                /\ loading' = "context"
                /\ UNCHANGED <<runs, seen>>
    /\ UNCHANGED <<cfg, hashSeed, item, versions>>
    /\ UNCHANGED <<fetchVars, normVars, ingestVars, namesVars, otherVars>>

\* config.load_context_words() reads context_words.txt
ReadContext ==
    /\ loading = "context"
    /\ snapshot' = [snapshot EXCEPT !.context = cfg.context]
    /\ loading' = "tier2"
    /\ UNCHANGED <<cfg, hashSeed, item, runs, versions, seen>>
    /\ UNCHANGED <<fetchVars, normVars, ingestVars, namesVars, otherVars>>

\* config.load_tier2_themes() reads tier2_keywords.txt, and the call runs
\* to its return
ReadTier2 ==
    /\ loading = "tier2"
    /\ Returned([snapshot EXCEPT !.tier2 = cfg.tier2], KeywordFiles)
    /\ UNCHANGED <<cfg, hashSeed, item, versions>>
    /\ UNCHANGED <<fetchVars, normVars, ingestVars, namesVars, otherVars>>

\* a save button of the Zoektermen page rewrites one keyword file
SaveKeywordFile ==
    /\ Saved < MaxSaves
    /\ \E name \in KeywordFiles :
        \E content \in Saveable[name] \ {cfg[name]} :
            cfg' = [cfg EXCEPT ![name] = content]
    /\ versions' = Append(versions, cfg')
    /\ UNCHANGED <<hashSeed, item, runs, loading, snapshot, seen>>
    /\ UNCHANGED <<fetchVars, normVars, ingestVars, namesVars, otherVars>>

NextReload ==
    CallCheckRelevance \/ ReadTier1 \/ ReadContext \/ ReadTier2
        \/ SaveKeywordFile

SpecReload == InitReload /\ [][NextReload]_vars

-----------------------------------------------------------------------------
(* _process_pdf naming and saving the PDFs it is handed                    *)

\* PDFs saved in one run, and seconds the run lasts
MaxSaved == 2
MaxClock == 2

\* safe_title[:50]
TitleLimit == 50

\* re.sub(r"[\s\-]+", "_", text): every run of spaces and hyphens becomes
\* one underscore
RECURSIVE JoinSeparators(_)
JoinSeparators(text) ==
    IF text = <<>> THEN <<>>
    ELSE IF Head(text) \in {" ", "-"}
    THEN IF Len(text) >= 2 /\ text[2] \in {" ", "-"}
         THEN JoinSeparators(Tail(text))
         ELSE <<"_">> \o JoinSeparators(Tail(text))
    ELSE <<Head(text)>> \o JoinSeparators(Tail(text))

InvalidChars == {"<", ">", ":", "\"", "/", "\\", "|", "?", "*"}
NonAscii == {"é"}

RECURSIVE StripEnds(_)
StripEnds(text) ==
    IF text = <<>> THEN <<>>
    ELSE IF Head(text) \in {"_", "."} THEN StripEnds(Tail(text))
    ELSE IF text[Len(text)] \in {"_", "."}
    THEN StripEnds(SubSeq(text, 1, Len(text) - 1))
    ELSE text

\* _sanitize_filename
SanitizeFilename(text) ==
    StripEnds(SelectSeq(JoinSeparators(text),
                        LAMBDA ch : ch \notin InvalidChars \cup NonAscii))

\* datetime.now().strftime("%Y%m%d_%H%M%S") at the seconds of the run
Timestamps ==
    <<"20240101_120000", "20240101_120001", "20240101_120002",
      "20240101_120003", "20240101_120004">>
Strftime(now) == Timestamps[now + 1]

OrElse(text, fallback) == IF text # <<>> THEN text ELSE fallback

\* _generate_pdf_filename; a title that sanitizes to nothing is replaced by
\* the last path segment of the URL, or "document"
GeneratePdfFilename(source_name, title, url, now) ==
    LET safe_source == OrElse(SanitizeFilename(source_name), <<"unknown">>)
        safe_title ==
            OrElse(SanitizeFilename(title),
                   OrElse(SanitizeFilename(LastSegment(UrlPath(url))),
                          <<"document">>))
    IN  safe_source \o <<"_">> \o <<Strftime(now)>> \o <<"_">>
          \o SubSeq(safe_title, 1,
                    IF Len(safe_title) < TitleLimit THEN Len(safe_title)
                    ELSE TitleLimit)
          \o <<".pdf">>

\* the source names, titles and URLs of the PDFs of a run
PdfSources == {<<"T", "K">>, <<>>}
PdfTitles ==
    {<<"a", " ", "b">>, <<"a", "-", "b">>, <<"a", ":", "b">>, <<"a", "b">>,
     <<"é">>}
PdfUrls == {UrlPdfFile, UrlDownload}

InitNames ==
    /\ FilterIdle
    /\ FetchIdle
    /\ NormIdle
    /\ IngestIdle
    /\ ReloadIdle
    /\ NamesIdle
    /\ OtherIdle

\* a second passes
Tick ==
    /\ clock < MaxClock
    /\ clock' = clock + 1
    /\ UNCHANGED <<folder, saved>>
    /\ UNCHANGED <<filterVars, fetchVars, normVars, ingestVars, reloadVars,
                   otherVars>>

\* _process_pdf names the payload and writes it with open(file_path, "wb")
SavePdf ==
    /\ Len(saved) < MaxSaved
    /\ \E source_name \in PdfSources, title \in PdfTitles, url \in PdfUrls :
        LET filename == GeneratePdfFilename(source_name, title, url, clock)
            payload == Len(saved) + 1
        IN  /\ folder' = {f \in folder : f.name # filename}
                            \cup {[name |-> filename, payload |-> payload]}
            /\ saved' = Append(saved, [file_path |-> filename,
                                       payload |-> payload,
                                       source_name |-> source_name,
                                       title |-> title])
    /\ UNCHANGED clock
    /\ UNCHANGED <<filterVars, fetchVars, normVars, ingestVars, reloadVars,
                   otherVars>>

NextNames == Tick \/ SavePdf

SpecNames == InitNames /\ [][NextNames]_vars

-----------------------------------------------------------------------------
(* Properties of check_relevance                                           *)

\* the text a verdict was computed from, and the configured terms
ClaimText == LowerStr(item.title \o <<" ">> \o item.description)
DirectTerms == LoadTier1Keywords(cfg)
ContextTerms == LoadContextWords(cfg)
Themes == LoadTier2Themes(cfg)

\* term occurs in s at some position i
Occurs(term, s) ==
    \E i \in 1..Len(s) :
        /\ i + Len(term) - 1 <= Len(s)
        /\ \A k \in 1..Len(term) : s[i + k - 1] = term[k]

\* the terms of a list that occur in the text, in the order of the list
RECURSIVE Occurring(_)
Occurring(terms) ==
    IF terms = <<>> THEN <<>>
    ELSE (IF Occurs(Head(terms), ClaimText) THEN <<Head(terms)>> ELSE <<>>)
         \o Occurring(Tail(terms))

DirectPresent == \E i \in 1..Len(DirectTerms) : Occurs(DirectTerms[i], ClaimText)
ContextPresent ==
    \E i \in 1..Len(ContextTerms) : Occurs(ContextTerms[i], ClaimText)
ThemeHit(i) ==
    \E k \in 1..Len(Themes[i].keywords) : Occurs(Themes[i].keywords[k], ClaimText)
ThemesHit == {i \in 1..Len(Themes) : ThemeHit(i)}

Classified == Len(runs) >= 1
Verdict == runs[1]

NotRelevant ==
    [is_relevant |-> FALSE, tier |-> NoTier, matched_keywords |-> <<>>,
     matched_context |-> <<>>, theme |-> NoTheme]

\* C1: a text in which a configured direct term occurs anywhere is tier 1,
\* relevant, with all occurring direct terms in configuration order, whatever
\* context or theme terms it also contains.
C1_DirectTermIsTier1 ==
    (Classified /\ DirectPresent) =>
        /\ Verdict.is_relevant
        /\ Verdict.tier = 1
        /\ Verdict.matched_keywords = Occurring(DirectTerms)

\* a direct term inside a larger word of a mixed-case title, beside a context
\* term and a theme term; two direct terms matched in configuration order
C1_Witness ==
    /\ Classified
    /\ DirectPresent /\ ContextPresent /\ ThemesHit # {}
    /\ \E p \in 1..Len(item.title) : item.title[p] = "A"
    /\ \E i \in 1..Len(DirectTerms) :
        /\ Occurs(DirectTerms[i], ClaimText)
        /\ SubSeq(ClaimText, 1, Len(DirectTerms[i])) # DirectTerms[i]
    /\ Len(Verdict.matched_keywords) = 2
    /\ Verdict.tier = 1

\* C2: no direct term, no context term and at most one matching theme give
\* the not-relevant verdict with empty lists, null tier and null theme.
C2_SingleThemeAloneNotRelevant ==
    (Classified /\ ~DirectPresent /\ ~ContextPresent
        /\ Cardinality(ThemesHit) <= 1) =>
        Verdict = NotRelevant

\* one themed term on its own, with direct and context terms configured
C2_Witness ==
    /\ Classified
    /\ DirectTerms # <<>> /\ ContextTerms # <<>>
    /\ ~DirectPresent /\ ~ContextPresent
    /\ Cardinality(ThemesHit) = 1
    /\ Verdict = NotRelevant

\* C3 as stated: exactly one matching theme and a context term give tier 2
\* with that theme.
C3_Original ==
    (Classified /\ Cardinality(ThemesHit) = 1 /\ ContextPresent) =>
        /\ Verdict.tier = 2
        /\ \A i \in ThemesHit : Verdict.theme = Themes[i].name

\* C3 amended: exactly one matching theme, a context term and no direct term
\* give tier 2 with that theme.
C3_OneThemeWithContextIsTier2 ==
    (Classified /\ Cardinality(ThemesHit) = 1 /\ ContextPresent
        /\ ~DirectPresent) =>
        /\ Verdict.is_relevant
        /\ Verdict.tier = 2
        /\ \A i \in ThemesHit : Verdict.theme = Themes[i].name

\* one theme and one context term, no direct term, two themes configured
C3_Witness ==
    /\ Classified
    /\ Cardinality(ThemesHit) = 1 /\ ContextPresent /\ ~DirectPresent
    /\ Len(Themes) >= 2
    /\ Len(Occurring(ContextTerms)) = 1
    /\ Verdict.tier = 2

\* the joined theme names in each order the names can be listed in
RECURSIVE Orderings(_)
Orderings(S) ==
    IF S = {} THEN {<<>>}
    ELSE UNION {{<<x>> \o rest : rest \in Orderings(S \ {x})} : x \in S}

JoinedThemeNames ==
    {Join(<<",", " ">>, o) : o \in Orderings({Themes[i].name : i \in ThemesHit})}

\* all matched terms of all matching themes, theme by theme
RECURSIVE OccurringThemed(_)
OccurringThemed(themes) ==
    IF themes = <<>> THEN <<>>
    ELSE Occurring(Head(themes).keywords) \o OccurringThemed(Tail(themes))

MultiThemeVerdict ==
    /\ Verdict.is_relevant
    /\ Verdict.tier = 2
    /\ Verdict.matched_keywords = OccurringThemed(Themes)
    /\ Verdict.theme \in JoinedThemeNames
    /\ Verdict.matched_context = <<MultiThemeMarker>>

\* C4 as stated: two or more matching themes and no context term give the
\* cross-theme verdict.
C4_Original ==
    (Classified /\ Cardinality(ThemesHit) >= 2 /\ ~ContextPresent) =>
        MultiThemeVerdict

\* C4 amended: two or more matching themes, no context term and no direct
\* term give the cross-theme verdict.
C4_TwoThemesNoContextIsTier2 ==
    (Classified /\ Cardinality(ThemesHit) >= 2 /\ ~ContextPresent
        /\ ~DirectPresent) =>
        MultiThemeVerdict

\* two themes, no context term, no direct term although some are configured
C4_Witness ==
    /\ Classified
    /\ Cardinality(ThemesHit) = 2 /\ ~ContextPresent /\ ~DirectPresent
    /\ DirectTerms # <<>> /\ ContextTerms # <<>>
    /\ Len(Verdict.matched_keywords) >= 2
    /\ Verdict.matched_context = <<MultiThemeMarker>>

\* C5: two runs of check_relevance on the same title, description and
\* configuration return identical verdicts.
C5_SameInputSameVerdict ==
    Len(runs) = 2 => runs[1] = runs[2]

-----------------------------------------------------------------------------
(* Properties of ContentFetcher.fetch                                      *)

\* the scorer has run on the page just received: the call waits for the
\* sub-fetch, or it has returned without one
JustScored == scored.ran /\ html # NoBody

Followed == Len(requests) = 2
TopScore == scored.candidates[1].score
SourcePage == [type |-> "html", file_path |-> NoFile, text_from |-> call.url]

\* C6: once the links of a page are scored, a second request is issued if and
\* only if there is a candidate and the best one scores at least 120; the
\* request goes to that candidate's URL; without it fetch returns the html
\* result of the original page, having requested only the page and written
\* no file.
C6_FollowsIffTopScoreAtLeast120 ==
    JustScored =>
        /\ Followed <=> (scored.candidates # <<>> /\ TopScore >= 120)
        /\ Followed =>
            /\ pc = "awaiting_pdf"
            /\ requests[2] = scored.candidates[1].href
        /\ ~Followed =>
            /\ pc = "done"
            /\ requests = <<call.url>>
            /\ result = SourcePage
            /\ written = <<>>

\* a link scoring exactly 120 is followed
C6_Witness == JustScored /\ Followed /\ TopScore = 120

\* the link whose URL the second request goes to
Selected == html.links[scored.candidates[1].idx]

\* the boosts and the title bonus a link earned, those that are positive
PositiveSignals(link, page_url, article_title) ==
    SelectSeq(UrlBoostTerms(Strip(link.href))
                \o <<PageBoost(page_url)>>
                \o TextBoostTerms(LowerStr(link.text))
                \o <<TitleAdjustment(article_title, Strip(link.href),
                                     LowerStr(link.text))>>,
              LAMBDA points : points > 0)

\* positive evidence that is not the form of the href
BeyondUrlShape(link, page_url, article_title) ==
    \/ PageBoost(page_url) > 0
    \/ TextBoosts(LowerStr(link.text)) > 0
    \/ TitleAdjustment(article_title, Strip(link.href),
                       LowerStr(link.text)) > 0

\* C7 as stated: a selected link has positive evidence besides the form of
\* its href, and at least two positive signals.
C7_Original ==
    pc = "awaiting_pdf" =>
        /\ BeyondUrlShape(Selected, call.url, call.title)
        /\ Len(PositiveSignals(Selected, call.url, call.title)) >= 2

\* C7: no single signal of a selected link reaches 120, and every selected
\* link has at least two positive signals (both may come from its href).
C7_SelectedHasTwoSignals ==
    pc = "awaiting_pdf" =>
        LET signals == PositiveSignals(Selected, call.url, call.title)
        IN  /\ Len(signals) >= 2
            /\ \A n \in 1..Len(signals) : signals[n] < 120

\* a link is selected on the form of its href alone
C7_Witness ==
    /\ pc = "awaiting_pdf"
    /\ ~BeyondUrlShape(Selected, call.url, call.title)

\* the anchors of the page just scored, and what the loop made of each
Page == html.links
Outcome(i) == LoopBody[Page[i], call.url, call.title]
IsCandidate(i) == Outcome(i).kind = "cand"

\* the position of the link selected, 0 when none is
SelectedIdx ==
    IF scored.pdf_url # NoUrl THEN scored.candidates[1].idx ELSE 0

EndsInPdf(href) ==
    LET href_lower == LowerStr(Strip(href))
    IN href_lower # <<>> /\ href_lower[Len(href_lower)] = ".pdf"

\* a nav/footer/aside element, or an element with a supplementary marker in
\* its class or id
Penalized(parent) ==
    \/ parent.name \in PeripheralTags
    \/ ClassSuspicious(parent)
    \/ IdSuspicious(parent)

InPenalizedAncestor(link) ==
    \E k \in 1..Len(link.parents) : Penalized(link.parents[k])

\* the file name of the href matches at least 40% of the meaningful words
\* of the title
FilenameMatchesTitle(link, article_title) ==
    LET title_words == TitleWords(article_title)
    IN  /\ title_words # <<>>
        /\ 10 * TitleMatches(article_title, Strip(link.href))
             >= 4 * Len(title_words)

\* the anchors of the run whose href ends in .pdf, those in a penalized
\* container, and those whose file name matches a title
PdfLinks == {link \in Links : EndsInPdf(link.href)}
SidebarLinks == {link \in Links : InPenalizedAncestor(link)}
MatchingLinks ==
    [article_title \in Titles4Fetch |->
        {link \in Links : FilenameMatchesTitle(link, article_title)}]

\* link i is the .pdf link in a penalized container, link j the .pdf link
\* outside any whose file name matches the title
SidebarAndMain(i, j) ==
    /\ i # j
    /\ Page[i] \in PdfLinks /\ Page[i] \in SidebarLinks
    /\ Page[j] \in PdfLinks /\ Page[j] \notin SidebarLinks
    /\ Page[j] \in MatchingLinks[call.title]

\* the boosts every anchor of the run earns on every page
BoostTable ==
    [link \in Links, page_url \in PageUrls |->
        UrlBoosts(Strip(link.href)) + PageBoost(page_url)
            + TextBoosts(LowerStr(link.text))]

BoostTotal(link) == BoostTable[link, call.url]

AnchorPenalty(link) == TextPenalties(LowerStr(link.text))

\* no other candidate is sorted before link j
RanksFirst(j) ==
    /\ ~scored.raised
    /\ IsCandidate(j)
    /\ \A k \in 1..Len(Page) :
          (k # j /\ IsCandidate(k)) =>
              \/ Outcome(k).score < Outcome(j).score
              \/ (Outcome(k).score = Outcome(j).score /\ k > j)

FirstResponse == pc = "awaiting_pdf" \/ (pc = "done" /\ Len(requests) = 1)

ConfirmedArtifact ==
    /\ resp.status = "ok"
    /\ \/ "application/pdf" \in Subs(Lower(resp.content_type))
       \/ LET path == LowerStr(UrlPath(call.url))
          IN path # <<>> /\ path[Len(path)] = ".pdf"

\* C9 as stated: after a first response that is a confirmed artifact fetch
\* has returned the pdf result without scoring links or a second request.
C9_Original ==
    (FirstResponse /\ ConfirmedArtifact) =>
        /\ pc = "done"
        /\ ~scored.ran
        /\ requests = <<call.url>>
        /\ result.type = "pdf"

\* C9: after a first response that is a confirmed artifact fetch has returned
\* without scoring links or a second request; the payload was written to the
\* PDF folder, and the result is the pdf result when the payload can be read
\* as a PDF and None when it cannot.
C9_ConfirmedArtifactIsProcessedDirectly ==
    (FirstResponse /\ ConfirmedArtifact) =>
        /\ pc = "done"
        /\ ~scored.ran
        /\ requests = <<call.url>>
        /\ written = <<call.url>>
        /\ result = IF html.readable
                    THEN [type |-> "pdf", file_path |-> call.url,
                          text_from |-> call.url]
                    ELSE NoneResult

\* a payload confirmed by the URL suffix alone gives the pdf result
C9_Witness ==
    /\ FirstResponse /\ ConfirmedArtifact
    /\ resp.content_type = "text/html"
    /\ result.type = "pdf"

\* the second response is a failure, is not confirmed as an artifact, or
\* cannot be read as a PDF
SubFetchFails ==
    \/ resp.status # "ok"
    \/ (/\ "application/pdf" \notin Subs(Lower(resp.content_type))
        /\ ~resp.body.magic)
    \/ ~resp.body.readable

\* C10: when the second request fails, or its response is not confirmed as an
\* artifact or cannot be read, fetch returns the html result of the original
\* page, without a file path.
C10_SubFetchFailureFallsBackToSourcePage ==
    (pc = "done" /\ Followed /\ SubFetchFails) => result = SourcePage

\* a link ending in .pdf was followed and the response is an HTML page
C10_Witness ==
    /\ pc = "done" /\ Followed
    /\ EndsInPdf(requests[2])
    /\ resp.status = "ok" /\ resp.content_type = "text/html"
    /\ ~resp.body.magic
    /\ result = SourcePage

\* the first request raised: the original page could not be fetched
PageUnreachable == Len(requests) = 1 /\ resp.status # "ok"

ResultTypes == {"pdf", "html", "none"}

\* C11 as stated: a call that has returned has one of the three outcomes,
\* and None only when the original page could not be fetched.
C11_Original ==
    pc = "done" =>
        /\ result.type \in ResultTypes
        /\ result = NoneResult => PageUnreachable

\* how far a call has come
Progress ==
    CASE pc = "idle" -> 0
      [] pc = "awaiting_page" -> 1
      [] pc = "awaiting_pdf" -> 2
      [] pc = "done" -> 3

\* C11: a call is never stuck (a request that is out can return or raise)
\* and every step but the caller's taking of the result brings it nearer to
\* its return, which it reaches after at most two responses; a call that has
\* returned has one of the three outcomes; and the outcome is None only when
\* the original page could not be fetched, when its payload was taken for a
\* PDF and could not be read, or when its payload was taken for a page and
\* could not be parsed.
C11_FetchReturnsOneOutcome ==
    /\ [](pc = "done" =>
            /\ result.type \in ResultTypes
            /\ result = NoneResult =>
                \/ PageUnreachable
                \/ (/\ Len(requests) = 1 /\ ConfirmedArtifact
                    /\ ~html.readable)
                \/ (/\ Len(requests) = 1 /\ resp.status = "ok"
                    /\ ~ConfirmedArtifact /\ ~html.parses))
    /\ [](pc = "awaiting_page" => ENABLED PageResponse)
    /\ [](pc = "awaiting_pdf" => ENABLED PdfResponse)
    /\ [][pc' # "idle" => Progress' > Progress]_vars

\* a page that was fetched, and None was returned
C11_Witness ==
    /\ pc = "done"
    /\ Len(requests) = 1 /\ resp.status = "ok"
    /\ result = NoneResult

\* C12: a call issues at most two requests; the first goes to the original
\* URL; the second, if any, goes to the URL of the candidate sorted first,
\* which no candidate outscores; and once the second request is out the call
\* returns without another request, whatever the response.
C12_AtMostTwoRequests ==
    /\ [](/\ Len(requests) <= 2
          /\ pc # "idle" => (requests # <<>> /\ requests[1] = call.url)
          /\ Followed => requests[2] = scored.pdf_url
          /\ pc = "awaiting_pdf" =>
                /\ scored.pdf_url = scored.candidates[1].href
                /\ \A k \in 1..Len(scored.candidates) :
                      scored.candidates[k].score <= TopScore)
    /\ [][pc = "awaiting_pdf" => (pc' = "done" /\ requests' = requests)]_vars

\* the second request is out and the page has a lower-ranked candidate
C12_Witness ==
    /\ pc = "awaiting_pdf"
    /\ Len(requests) = 2
    /\ Len(scored.candidates) >= 2
    /\ scored.candidates[2].score < TopScore
    /\ scored.candidates[2].href # requests[2]

-----------------------------------------------------------------------------
(* Properties of the whitespace clean-up                                   *)

\* C13: a text cleaned up once has no run of three newlines, no two spaces
\* in a row and no whitespace at either end, and cleaning it up again gives
\* the same text.
C13_CleanUpIsIdempotent ==
    /\ passes # <<>> =>
        LET cleaned == passes[1]
        IN  /\ ~HasRun(<<"\n", "\n", "\n">>, cleaned)
            /\ ~HasRun(<<" ", " ">>, cleaned)
            /\ cleaned # <<>> =>
                /\ Head(cleaned) \notin Whitespace
                /\ cleaned[Len(cleaned)] \notin Whitespace
    /\ Len(passes) = 2 => passes[2] = passes[1]

\* a text with a run of three newlines and spaces at its end, cleaned twice
C13_Witness ==
    /\ Len(passes) = 2
    /\ HasRun(<<"\n", "\n", "\n">>, raw)
    /\ raw[Len(raw)] = " "
    /\ HasRun(<<"\n", "\n">>, passes[1])

-----------------------------------------------------------------------------
(* check_relevance on missing and empty configuration                      *)

NoTerms(file) == file = Missing \/ file = <<>>

\* every matched keyword of the verdict occurs in s
MatchedWithin(s) ==
    \A k \in 1..Len(Verdict.matched_keywords) :
        Occurs(Verdict.matched_keywords[k], LowerStr(s))

\* C14: a keyword file that is missing or has no line gives an empty term
\* collection; check_relevance returns a verdict whatever the configuration;
\* without direct terms no verdict is tier 1; with all three collections
\* empty every verdict is the not-relevant one; an empty title and
\* description give the not-relevant verdict, and an empty title or
\* description adds no matched keyword to those found in the other field.
C14_EmptyConfigurationIsTolerated ==
    /\ NoTerms(cfg.tier1) => DirectTerms = <<>>
    /\ NoTerms(cfg.context) => ContextTerms = <<>>
    /\ NoTerms(cfg.tier2) => Themes = <<>>
    /\ Classified =>
        /\ Verdict.is_relevant \in BOOLEAN
        /\ Verdict.tier \in {NoTier, 1, 2}
        /\ Verdict.is_relevant <=> Verdict.tier # NoTier
        /\ DirectTerms = <<>> => Verdict.tier # 1
        /\ (DirectTerms = <<>> /\ ContextTerms = <<>> /\ Themes = <<>>)
              => Verdict = NotRelevant
        /\ (item.title = <<>> /\ item.description = <<>>)
              => Verdict = NotRelevant
        /\ item.description = <<>> => MatchedWithin(item.title)
        /\ item.title = <<>> => MatchedWithin(item.description)

\* a title classified while all three keyword files are missing
C14_Witness ==
    /\ Classified
    /\ cfg.tier1 = Missing /\ cfg.context = Missing /\ cfg.tier2 = Missing
    /\ item.title # <<>>
    /\ Verdict = NotRelevant

-----------------------------------------------------------------------------
(* Properties of the link scorer                                           *)

\* the links of the page the loop appended to pdf_candidates
Retained == {i \in 1..Len(Page) : IsCandidate(i)}

\* C15: when the pass completes the candidate list holds the retained links
\* with their scores, sorted by score descending and, among equal scores, in
\* document order; so the selected link has the highest score of all
\* retained links and is the first in the document of those that have it.
C15_RankedByScoreThenDocumentOrder ==
    (JustScored /\ ~scored.raised) =>
        LET cands == scored.candidates
        IN  /\ {cands[k].idx : k \in 1..Len(cands)} = Retained
            /\ Len(cands) = Cardinality(Retained)
            /\ \A k \in 1..Len(cands) :
                  cands[k].score = Outcome(cands[k].idx).score
            /\ \A k, l \in 1..Len(cands) :
                  k < l =>
                      \/ cands[k].score > cands[l].score
                      \/ (/\ cands[k].score = cands[l].score
                          /\ cands[k].idx < cands[l].idx)
            /\ SelectedIdx # 0 =>
                  \A i \in Retained :
                      \/ Outcome(i).score < Outcome(SelectedIdx).score
                      \/ (/\ Outcome(i).score = Outcome(SelectedIdx).score
                          /\ i >= SelectedIdx)

\* two links to different files share the highest score; the earlier one is
\* selected
C15_Witness ==
    /\ pc = "awaiting_pdf"
    /\ Len(scored.candidates) >= 2
    /\ scored.candidates[2].score = TopScore
    /\ scored.candidates[2].href # scored.candidates[1].href
    /\ SelectedIdx = 1

\* neither absolute nor root-relative: `href.startswith("/")` and
\* `href.startswith("http")` both fail
RelativeHref(href) ==
    LET stripped == Strip(href)
    IN  /\ stripped # <<>>
        /\ ~StartsWith(stripped, <<"/">>)
        /\ ~StartsWithHttp(stripped)

\* what the title match would add to the link
TitleBonus(link) ==
    TitleAdjustment(call.title, Strip(link.href), LowerStr(link.text))

\* C16: a link with an href whose boosts sum to zero is passed over,
\* whatever its title match, its ancestors or the form of its href: it is no
\* candidate and it is not selected; a link with an href and a non-zero
\* boost sum is passed over only for a relative href, never for its total.
C16_ZeroBoostLinksAreDropped ==
    JustScored =>
        \A i \in 1..Len(Page) :
            /\ (Strip(Page[i].href) # <<>> /\ BoostTotal(Page[i]) = 0) =>
                  /\ Outcome(i).kind = "skip"
                  /\ SelectedIdx # i
                  /\ \A k \in 1..Len(scored.candidates) :
                        scored.candidates[k].idx # i
            /\ (/\ Strip(Page[i].href) # <<>>
                /\ BoostTotal(Page[i]) # 0
                /\ Outcome(i).kind = "skip") => RelativeHref(Page[i].href)

\* one link without boost that matches the title is passed over; another
\* link is a candidate with a total of zero or less
C16_Witness ==
    /\ JustScored
    /\ \E i, j \in 1..Len(Page) :
          /\ BoostTotal(Page[i]) = 0
          /\ TitleBonus(Page[i]) = 40
          /\ Outcome(i).kind = "skip"
          /\ IsCandidate(j)
          /\ Outcome(j).score <= 0

\* the href has a scheme and a host / it starts at the root of the site
AbsoluteHref(href) ==
    LET stripped == Strip(href)
    IN HasScheme(stripped) /\ Netloc(stripped) # <<>>

RootRelativeHref(href) == StartsWith(Strip(href), <<"/">>)

NeitherAbsoluteNorRootRelative(href) ==
    /\ Strip(href) # <<>>
    /\ ~AbsoluteHref(href)
    /\ ~RootRelativeHref(href)

\* the candidates of a pass as (score, URL) pairs in rank order
Ranking(found) ==
    [k \in 1..Len(found.candidates) |->
        <<found.candidates[k].score, found.candidates[k].href>>]

\* the page without its relative links
WithoutRelativeLinks ==
    SelectSeq(Page, LAMBDA l : ~NeitherAbsoluteNorRootRelative(l.href))

\* C17: a link whose href is neither absolute nor root-relative is no
\* candidate, and the pass ranks the other links as it would without it;
\* the URL of every candidate is absolute: the href itself when that is
\* absolute, the scheme and host of the page URL followed by the href when
\* it is root-relative.
C17_RelativeLinksAreDiscarded ==
    JustScored =>
        /\ \A i \in 1..Len(Page) :
              /\ NeitherAbsoluteNorRootRelative(Page[i].href)
                    => ~IsCandidate(i)
              /\ IsCandidate(i) =>
                    /\ AbsoluteHref(Outcome(i).href)
                    /\ Outcome(i).href =
                          IF RootRelativeHref(Page[i].href)
                          THEN BaseUrl(call.url) \o Strip(Page[i].href)
                          ELSE Strip(Page[i].href)
        /\ Ranking(scored) =
              Ranking(FindPdfDownloadLink(WithoutRelativeLinks, call.url,
                                          call.title))

-----------------------------------------------------------------------------
(* The order of the steps of _process_entry                                *)

CallsMade == {trail[k].call : k \in 1..Len(trail)}

\* the answers _process_entry asked for before its k-th call
Before(k) == {trail[j] : j \in 1..(k - 1)}

EndsEarly ==
    \/ entry.link = NoUrl
    \/ Called("check_relevance", "not relevant") \in Before(Len(trail) + 1)
    \/ Called("url_exists", "present") \in Before(Len(trail) + 1)

\* the step just taken is the call `name`
JustCalled(name) ==
    /\ Len(trail') = Len(trail) + 1
    /\ trail'[Len(trail')].call = name

\* C18: in _process_entry, content is fetched only after the entry was
\* classified relevant and its link was then found absent from the database
\* (and both answers are true of the entry and the table), a row is added
\* only after a fetch that returned a pdf or html result, and it is the row
\* of this entry; an entry that has no link, is not relevant or is already
\* stored causes neither a fetch nor a change of the table.
C18_FetchAndStoreFollowThePipeline ==
    /\ [](\A k \in 1..Len(trail) :
            /\ trail[k].call = "url_exists"
                => Before(k) = {Called("check_relevance", "relevant")}
            /\ trail[k].call = "fetch"
                => /\ Called("check_relevance", "relevant") \in Before(k)
                   /\ Called("url_exists", "absent") \in Before(k)
            /\ trail[k].call = "add_document"
                => \E t \in {"pdf", "html"} : Called("fetch", t) \in Before(k))
    /\ [](EndsEarly => CallsMade \cap {"fetch", "add_document"} = {})
    /\ [][/\ JustCalled("fetch")
            => /\ CheckRelevance(entry.title, entry.summary,
                                 cfg, hashSeed).is_relevant
               /\ \A i \in 1..Len(db) : db[i].url # entry.link
          /\ db' # db
            => /\ JustCalled("add_document")
               /\ got.type \in {"pdf", "html"}
               /\ db' = Append(db, [url |-> entry.link,
                                    title |-> entry.title,
                                    content_type |-> got.type,
                                    local_file_path |-> got.file_path])
          /\ (EndsEarly /\ entry' = entry) => db' = db]_vars

\* a second entry is stored, after an entry of the run was skipped as
\* already stored and another was filtered
C18_Witness ==
    /\ Len(trail) = 4
    /\ trail[4] = Called("add_document", "stored")
    /\ Len(db) = 2
    /\ stats.entries_skipped_existing + stats.entries_filtered > 0

-----------------------------------------------------------------------------
(* The DOM-context penalty                                                 *)

\* the position of the nearest penalized ancestor, 0 when there is none
FirstPenalized(link) ==
    IF InPenalizedAncestor(link)
    THEN CHOOSE k \in 1..Len(link.parents) :
            /\ Penalized(link.parents[k])
            /\ \A j \in 1..(k - 1) : ~Penalized(link.parents[j])
    ELSE 0

\* the nearest penalized ancestor is a nav/footer/aside element
StoppedByTag(link) ==
    /\ FirstPenalized(link) # 0
    /\ link.parents[FirstPenalized(link)].name \in PeripheralTags

\* the nearest penalized ancestor is penalized for a marker in its class
\* list or its id
StoppedByMarker(link) ==
    /\ FirstPenalized(link) # 0
    /\ link.parents[FirstPenalized(link)].name \notin PeripheralTags

MarkedTwice(link) ==
    /\ ClassSuspicious(link.parents[FirstPenalized(link)])
    /\ IdSuspicious(link.parents[FirstPenalized(link)])

\* what the walk makes of every anchor of the run: its penalty, and what its
\* nearest penalized ancestor is
Walked ==
    [link \in Links |->
        [penalty |-> GetLinkContextPenalty(link),
         none |-> FirstPenalized(link) = 0,
         by_tag |-> StoppedByTag(link),
         by_marker |-> StoppedByMarker(link),
         twice |-> StoppedByMarker(link) /\ MarkedTwice(link)]]

\* the score every anchor of the run has before the DOM penalty is taken off
Unpenalized ==
    [link \in Links, page_url \in PageUrls, article_title \in Titles4Fetch |->
        UrlBoosts(Strip(link.href)) + PageBoost(page_url)
          + TextBoosts(LowerStr(link.text))
          - TextPenalties(LowerStr(link.text))
          + TitleAdjustment(article_title, Strip(link.href),
                            LowerStr(link.text))]

\* the score of a candidate is its boosts less the DOM penalty and the
\* anchor-text penalties, plus the title adjustment
ScoredWithPenalty(i) ==
    IsCandidate(i) =>
        Outcome(i).score =
            Unpenalized[Page[i], call.url, call.title]
              - Walked[Page[i]].penalty

\* C19 as stated: the DOM penalty of every link of a scored page is 50 when
\* its nearest penalized ancestor is a nav/footer/aside element, 40 when it
\* is an element with a marker in its class list or id, 0 when no ancestor
\* is penalized, and never more than 60.
C19_Original ==
    JustScored =>
        \A i \in 1..Len(Page) :
            LET walk == Walked[Page[i]]
            IN  /\ walk.by_tag => walk.penalty = 50
                /\ walk.by_marker => walk.penalty = 40
                /\ walk.none => walk.penalty = 0
                /\ walk.penalty <= 60

\* C19: the DOM penalty of every link of a scored page is decided by its
\* nearest penalized ancestor alone: 50 when that is a nav/footer/aside
\* element (whatever its class and id), 40 when it is another element with a
\* marker in its class list or in its id but not in both, 60 (40 + 40,
\* capped) when both its class list and its id hold a marker, 0 when no
\* ancestor is penalized; it never exceeds 60, and it is the amount taken off
\* the score of a candidate.
C19_PenaltyOfNearestPenalizedAncestor ==
    JustScored =>
        \A i \in 1..Len(Page) :
            LET walk == Walked[Page[i]]
            IN  /\ walk.by_tag => walk.penalty = 50
                /\ (walk.by_marker /\ ~walk.twice) => walk.penalty = 40
                /\ walk.twice => walk.penalty = 60
                /\ walk.none => walk.penalty = 0
                /\ walk.penalty <= 60
                /\ ScoredWithPenalty(i)

\* a candidate in a doubly marked container, followed by a candidate whose
\* nearest penalized ancestor is farther up than other penalized ancestors
C19_Witness ==
    /\ JustScored
    /\ Len(Page) = 2
    /\ IsCandidate(1) /\ IsCandidate(2)
    /\ StoppedByMarker(Page[1]) /\ MarkedTwice(Page[1])
    /\ StoppedByMarker(Page[2]) /\ ~MarkedTwice(Page[2])
    /\ FirstPenalized(Page[2]) > 1
    /\ \E k \in (FirstPenalized(Page[2]) + 1)..Len(Page[2].parents) :
          Penalized(Page[2].parents[k])

-----------------------------------------------------------------------------
(* The title-match adjustment                                              *)

\* the meaningful title words found in the anchor text
TextMatches(article_title, text) ==
    LET title_words == TitleWords(article_title)
    IN Cardinality({k \in 1..Len(title_words) :
                        HasToken(title_words[k], LowerStr(text))})

\* the adjustment decided by the better of the two match ratios
AdjustmentByBetterRatio(article_title, link) ==
    LET words == Len(TitleWords(article_title))
        best == Max(TitleMatches(article_title, Strip(link.href)),
                    TextMatches(article_title, link.text))
    IN  IF words = 0 THEN 0
        ELSE IF 10 * best >= 4 * words THEN 40
        ELSE IF 10 * best >= 2 * words THEN 20
        ELSE IF best = 0 /\ words >= 3 THEN -50
        ELSE 0

\* C20: on a page with a non-empty article title the score of every
\* candidate, whatever its anchor text, holds the adjustment decided by the
\* better of the two match ratios: +40 from 0.4, +20 from 0.2, -50 when
\* neither the file name of the URL nor the anchor text holds a title word
\* and the title has at least 3 meaningful words, 0 otherwise.
C20_AdjustmentByBetterRatio ==
    (JustScored /\ call.title # <<>>) =>
        \A i \in 1..Len(Page) :
            IsCandidate(i) =>
                Outcome(i).score =
                    BoostTotal(Page[i]) - GetLinkContextPenalty(Page[i])
                      - AnchorPenalty(Page[i])
                      + AdjustmentByBetterRatio(call.title, Page[i])

-----------------------------------------------------------------------------
(* Tier 2 with a context term                                              *)

\* the first theme, in the order of the configuration, with a matching term
FirstThemeHit == CHOOSE i \in ThemesHit : \A j \in ThemesHit : i <= j

\* C21: without a direct term and with at least one context term in the
\* text, a text matching one or more themes gets the tier 2 verdict of the
\* first matching theme in configuration order: its name, only its matching
\* terms, and all matching context terms; with two or more matching themes
\* this verdict is returned, not the cross-theme one.
C21_FirstMatchingThemeWithContext ==
    (Classified /\ ~DirectPresent /\ ContextPresent /\ ThemesHit # {}) =>
        /\ Verdict.is_relevant
        /\ Verdict.tier = 2
        /\ Verdict.theme = Themes[FirstThemeHit].name
        /\ Verdict.matched_keywords = Occurring(Themes[FirstThemeHit].keywords)
        /\ Verdict.matched_context = Occurring(ContextTerms)
        /\ Verdict.matched_context # <<MultiThemeMarker>>

\* two themes match beside a context term, and the second theme's terms are
\* left out of the verdict
C21_Witness ==
    /\ Classified
    /\ ~DirectPresent /\ ContextPresent
    /\ Cardinality(ThemesHit) = 2
    /\ Verdict.theme = Themes[FirstThemeHit].name
    /\ Verdict.matched_keywords # OccurringThemed(Themes)

-----------------------------------------------------------------------------
(* The page-context boost                                                  *)

\* the score every anchor of the run has from its own href, text, ancestors
\* and the title, the page left aside
LinkScore ==
    [link \in Links, article_title \in Titles4Fetch |->
        UrlBoosts(Strip(link.href)) + TextBoosts(LowerStr(link.text))
          - GetLinkContextPenalty(link) - TextPenalties(LowerStr(link.text))
          + TitleAdjustment(article_title, Strip(link.href),
                            LowerStr(link.text))]

\* the anchors of the run without a boost of their own
PlainLinks ==
    {link \in Links :
        UrlBoosts(Strip(link.href)) + TextBoosts(LowerStr(link.text)) = 0}

\* the page URL holds one of the document-section fragments
OnDocumentPage == IsDocPage(call.url)

\* link i would be appended if it had a boost: it has an href that is
\* absolute or root-relative, and scoring it does not raise
Eligible(i) ==
    LET href == Strip(Page[i].href)
    IN  /\ href # <<>>
        /\ StartsWith(href, <<"/">>) \/ StartsWithHttp(href)
        /\ Outcome(i).kind # "raise"

\* C22: the page-context boost depends on the page URL alone: on a page
\* whose URL holds a document-section fragment the score of every candidate
\* is its own score plus exactly 50, and every link with a usable href is a
\* candidate, also one without any boost of its own; on any other page the
\* score of a candidate holds no such boost and a link without a boost of
\* its own is no candidate; and two links that are candidates on this page
\* and on another page of the run differ by the same score on both.
C22_PageBoostIsTheSameForEveryLink ==
    JustScored =>
        /\ \A i \in 1..Len(Page) :
            /\ IsCandidate(i) =>
                  Outcome(i).score =
                      LinkScore[Page[i], call.title]
                        + (IF OnDocumentPage THEN 50 ELSE 0)
            /\ (OnDocumentPage /\ Eligible(i)) => IsCandidate(i)
            /\ (~OnDocumentPage /\ Page[i] \in PlainLinks)
                  => ~IsCandidate(i)
        /\ \A i, j \in 1..Len(Page) :
            (i < j /\ IsCandidate(i) /\ IsCandidate(j)) =>
                \A page_url \in PageUrls \ {call.url} :
                    LET there_i == LoopBody[Page[i], page_url, call.title]
                        there_j == LoopBody[Page[j], page_url, call.title]
                    IN  (there_i.kind = "cand" /\ there_j.kind = "cand")
                          => Outcome(i).score - Outcome(j).score
                               = there_i.score - there_j.score

\* a document page with a link that is a candidate by the page boost alone,
\* next to a link with boosts of its own
C22_Witness ==
    /\ JustScored
    /\ OnDocumentPage
    /\ Len(Page) = 2
    /\ IsCandidate(1) /\ IsCandidate(2)
    /\ Page[1] \in PlainLinks
    /\ Page[2] \notin PlainLinks

-----------------------------------------------------------------------------
(* The boosts of a link                                                    *)

\* the signals a link earns, each by its own condition
SignalsEarned(link) ==
    LET href == LowerStr(Strip(link.href))
        text == LowerStr(link.text)
        doc_word == HasToken("rapport", text) \/ HasToken("advies", text)
    IN  {sig \in
            { [label |-> "ends_with_pdf", points |-> 100,
               holds |-> href # <<>> /\ href[Len(href)] = ".pdf"],
              [label |-> "repository_file", points |-> 90,
               holds |-> HasToken("open.overheid.nl", href)
                           /\ HasRun(<<"/", "file">>, href)],
              [label |-> "gazette", points |-> 80,
               holds |-> HasToken("officielebekendmakingen.nl", href)],
              [label |-> "pdf_in_href", points |-> 70,
               holds |-> HasToken(".pdf", href)],
              [label |-> "download_cue", points |-> 50,
               holds |-> HasToken("download", text)
                           /\ (HasToken("pdf", text) \/ doc_word)],
              [label |-> "pdf_in_brackets", points |-> 40,
               holds |-> HasToken("(pdf", text)],
              [label |-> "full_version", points |-> 30,
               holds |-> HasToken("volledige", text) /\ doc_word] } :
         sig.holds}

RECURSIVE PointsOf(_)
PointsOf(signals) ==
    IF signals = {} THEN 0
    ELSE LET sig == CHOOSE x \in signals : TRUE
         IN sig.points + PointsOf(signals \ {sig})

\* for every anchor of the run, the labels it earns and their sum
Earned ==
    [link \in Links |->
        [labels |-> {sig.label : sig \in SignalsEarned(link)},
         points |-> PointsOf(SignalsEarned(link))]]

\* what is taken off or added after the boosts
AfterBoosts ==
    [link \in Links, article_title \in Titles4Fetch |->
        TitleAdjustment(article_title, Strip(link.href), LowerStr(link.text))
          - GetLinkContextPenalty(link) - TextPenalties(LowerStr(link.text))]

\* C23: the score of a link before penalties is the sum of every boost whose
\* condition holds, each on its own (+100, +90, +80, +70 on the href, +50,
\* +40, +30 on the anchor text) plus the page-context boost: every candidate
\* scores that sum with the penalties and the title adjustment applied, and
\* a link with an href is dropped for want of signal exactly when the sum
\* is 0.
C23_BoostsAddUp ==
    JustScored =>
        \A i \in 1..Len(Page) :
            LET sum == Earned[Page[i]].points
                         + (IF OnDocumentPage THEN 50 ELSE 0)
            IN  /\ IsCandidate(i) =>
                      Outcome(i).score =
                          sum + AfterBoosts[Page[i], call.title]
                /\ Eligible(i) => (IsCandidate(i) <=> sum # 0)

\* a candidate on a document page that earns both boosts for the extension
\* and two boosts for its anchor text
C23_Witness ==
    /\ JustScored
    /\ OnDocumentPage
    /\ \E i \in 1..Len(Page) :
        /\ IsCandidate(i)
        /\ {"ends_with_pdf", "pdf_in_href", "download_cue", "pdf_in_brackets"}
              \subseteq Earned[Page[i]].labels
        /\ Outcome(i).score >= 310

-----------------------------------------------------------------------------
(* The anchor-text penalties                                               *)

\* the supplementary phrases an anchor text holds ("bron " counted with the
\* other phrases)
PhrasesIn(link) ==
    LET text == LowerStr(link.text)
    IN  {supp_text \in SupplementaryTexts : HasPhrase(supp_text, text)}
          \cup (IF HasBronSpace(text) THEN {<<"bron", " ">>} ELSE {})

\* the anchor text holds rapport, advies or publicatie
NamesDocumentType(link) ==
    \E word \in {"rapport", "advies", "publicatie"} :
        HasToken(word, LowerStr(link.text))

\* for every anchor of the run: what the claim makes of its text, and the
\* rest of its score
TextPenalized ==
    [link \in Links |->
        [phrases |-> Cardinality(PhrasesIn(link)),
         cross_reference |-> NamesDocumentType(link),
         expected |-> (IF PhrasesIn(link) # {} THEN 40 ELSE 0)
                        + (IF NamesDocumentType(link) THEN 20 ELSE 0)]]

BesidesTextPenalty ==
    [link \in Links, article_title \in Titles4Fetch |->
        UrlBoosts(Strip(link.href)) + TextBoosts(LowerStr(link.text))
          - GetLinkContextPenalty(link)
          + TitleAdjustment(article_title, Strip(link.href),
                            LowerStr(link.text))]

\* C24: the anchor text of a link costs 40 once when it holds one or more
\* supplementary phrases, and on its own account 20 when it holds rapport,
\* advies or publicatie; the two are all that the anchor text takes off a
\* candidate's score, so it takes off 0, 20, 40 or 60.
C24_AnchorTextPenalties ==
    JustScored =>
        \A i \in 1..Len(Page) :
            LET expected == TextPenalized[Page[i]].expected
            IN  /\ expected \in {0, 20, 40, 60}
                /\ IsCandidate(i) =>
                      Outcome(i).score =
                          BesidesTextPenalty[Page[i], call.title]
                            + (IF OnDocumentPage THEN 50 ELSE 0)
                            - expected

\* a candidate whose anchor text holds two supplementary phrases and a
\* document-type word, next to one whose text holds the word alone
C24_Witness ==
    /\ JustScored
    /\ Len(Page) = 2
    /\ IsCandidate(1) /\ IsCandidate(2)
    /\ TextPenalized[Page[1]].phrases >= 2
    /\ TextPenalized[Page[1]].expected = 60
    /\ TextPenalized[Page[2]].expected = 20

-----------------------------------------------------------------------------
(* The configuration a classification is made against                      *)

\* the files call k read are the files of one state of the disk during
\* the call
EachCallReadOneVersion ==
    \A k \in 1..Len(seen) :
        seen[k].to # 0 =>
            \E v \in seen[k].from..seen[k].to :
                \A name \in seen[k].read :
                    seen[k].files[name] = versions[v][name]

\* the calls of the pass read the same content from every file they both
\* read
PassReadOneConfiguration ==
    \A j, k \in 1..Len(seen) :
        \A name \in seen[j].read \cap seen[k].read :
            seen[j].files[name] = seen[k].files[name]

\* C25: while keyword files are saved at any time, every call of
\* check_relevance computes its verdict from the three files as they stood
\* together at one moment of the call, and all items of a pass are
\* classified against the same files.
C25_OneConfigurationPerCallAndPass ==
    EachCallReadOneVersion /\ PassReadOneConfiguration

-----------------------------------------------------------------------------
(* The names of the stored PDFs                                            *)

\* C26: no two PDFs saved by _process_pdf get the same file name, whatever
\* their source names and titles, so the file of every saved PDF still holds
\* its own payload.
C26_PdfFilenamesAreUnique ==
    \A i, j \in 1..Len(saved) :
        /\ i # j => saved[i].file_path # saved[j].file_path
        /\ [name |-> saved[i].file_path, payload |-> saved[i].payload]
              \in folder

-----------------------------------------------------------------------------
(* The shape of a verdict                                                  *)

WellFormed(v) ==
    /\ v.is_relevant <=> v.tier \in {1, 2}
    /\ v.tier = 1 =>
        /\ v.matched_keywords # <<>>
        /\ v.matched_context = <<>>
        /\ v.theme = NoTheme
    /\ v.tier = 2 =>
        /\ v.matched_keywords # <<>>
        /\ v.matched_context # <<>>
        /\ v.theme # NoTheme
        /\ v.matched_context = <<MultiThemeMarker>> => ~ContextPresent
    /\ ~v.is_relevant =>
        /\ v.matched_keywords = <<>>
        /\ v.matched_context = <<>>
        /\ v.tier = NoTier
        /\ v.theme = NoTheme

\* C27: every verdict of check_relevance is relevant exactly when its tier is
\* 1 or 2; tier 1 has matched keywords, no matched context and no theme;
\* tier 2 has matched keywords, matched context and a theme, and the
\* multi-theme marker stands for the context only when no context term
\* occurs in the text; a verdict that is not relevant has empty lists, no
\* tier and no theme.
C27_VerdictsAreWellFormed ==
    \A r \in 1..Len(runs) : WellFormed(runs[r])

\* a verdict with the multi-theme marker, for a text without context term
C27_Witness ==
    /\ Classified
    /\ Verdict.tier = 2
    /\ Verdict.matched_context = <<MultiThemeMarker>>
    /\ Len(Verdict.matched_keywords) >= 2
    /\ ~ContextPresent

-----------------------------------------------------------------------------
(* Files left in the PDF folder                                            *)

\* C28: when fetch returns, every file the call wrote to the PDF folder is
\* the file of the pdf result it returns: a call that returns the html result
\* of the source page, or None, leaves no file behind.
C28_NoOrphanFile ==
    pc = "done" =>
        \A i \in 1..Len(written) :
            /\ result.type = "pdf"
            /\ result.file_path = written[i]

-----------------------------------------------------------------------------
(* The counters of an ingestion run                                        *)

OutcomeCounters ==
    {"entries_filtered", "entries_skipped_existing", "entries_failed",
     "entries_stored"}

Outcomes(counters) ==
    counters.entries_filtered + counters.entries_skipped_existing
      + counters.entries_failed + counters.entries_stored

\* the entry being processed has a link and has not ended yet
InFlight == IF step = "idle" THEN 0 ELSE 1

CountersAddUp ==
    /\ Outcomes(stats) + InFlight = linked
    /\ linked <= stats.entries_found
    /\ Outcomes(stats) <= stats.entries_found
    /\ (step = "idle" /\ linked = stats.entries_found) =>
            Outcomes(stats) = stats.entries_found
    /\ stats.entries_stored <= stats.entries_fetched
    /\ stats.entries_fetched <= stats.entries_found

\* an entry with a link that ends increments one outcome counter by one and
\* leaves the other three alone; no other step touches an outcome counter
OneOutcomePerEntry ==
    IF step # "idle" /\ step' = "idle"
    THEN \E n \in OutcomeCounters :
            /\ stats'[n] = stats[n] + 1
            /\ \A m \in OutcomeCounters \ {n} : stats'[m] = stats[m]
    ELSE \A m \in OutcomeCounters : stats'[m] = stats[m]

-----------------------------------------------------------------------------
(* One document per url                                                    *)

UrlsAreUnique ==
    \A i, j \in 1..Len(db) : db[i].url = db[j].url => i = j

\* a run that ends an entry whose link is stored by then
SecondAttempt(run_step, run_entry) ==
    /\ run_step \in {"url_exists", "fetch", "add_document"}
    /\ UrlExists(run_entry.link, db)

NotStored(before, after) ==
    /\ after.entries_stored = before.entries_stored
    /\ \/ after.entries_skipped_existing = before.entries_skipped_existing + 1
       \/ after.entries_failed = before.entries_failed + 1

\* stored rows stay as they are, and an entry whose link is stored when its
\* run looks it up or tries to store it is counted as skipped or failed
StoredOnce ==
    /\ Len(db') >= Len(db)
    /\ \A i \in 1..Len(db) : db'[i] = db[i]
    /\ (SecondAttempt(step, entry) /\ step' = "idle") =>
            db' = db /\ NotStored(stats, stats')
    /\ (SecondAttempt(other.step, other.entry) /\ other'.step = "idle") =>
            db' = db /\ NotStored(other.stats, other'.stats)

====
